---- MODULE Spec2Model ----
(***************************************************************************)
(* Model of cell_classification/promix_naive.py: PromixNaive.train, the    *)
(* loss selection it runs on every batch (batchwise_loss_selection,        *)
(* class_wise_loss_selection, matched_high_confidence_selection), the      *)
(* quantile schedule and the periodic snapshot of the loss quantiles.      *)
(*                                                                         *)
(* Numbers that are floats in the program are exact rationals <<n, d>>     *)
(* here (d > 0, lowest terms); float rounding is not modelled.             *)
(***************************************************************************)
EXTENDS Integers, Sequences, FiniteSets, TLC

\* ------------------------------------------------------------ bounds
\* num_steps ranges over 1..MaxSteps
MaxSteps == 3
\* batches the training dataset yields per epoch: 1..MaxBatches
MaxBatches == 2
\* snap_steps and val_steps range over 1..MaxPeriod
MaxPeriod == 2
\* batch_size ranges over 1..MaxBatchSize
MaxBatchSize == 2
\* quantile_warmup_steps ranges over 1..MaxWarmup
MaxWarmup == 2

\* ------------------------------------------------------------ rationals
RECURSIVE GCD(_, _)
GCD(a, b) == IF b = 0 THEN a ELSE GCD(b, a % b)

Abs(x) == IF x < 0 THEN -x ELSE x

\* n/d in lowest terms, d > 0
Rat(n, d) == LET g == GCD(Abs(n), d) IN <<n \div g, d \div g>>

RAdd(a, b) == Rat(a[1] * b[2] + b[1] * a[2], a[2] * b[2])
RSub(a, b) == Rat(a[1] * b[2] - b[1] * a[2], a[2] * b[2])
RMul(a, b) == Rat(a[1] * b[1], a[2] * b[2])
RDivInt(a, k) == Rat(a[1], a[2] * k)
RLe(a, b) == a[1] * b[2] <= b[1] * a[2]
RLt(a, b) == a[1] * b[2] < b[1] * a[2]
RFloor(a) == a[1] \div a[2]
RInt(k) == <<k, 1>>
Zero == <<0, 1>>
One == <<1, 1>>

\* np.min([a, b])
np_min(a, b) == IF RLe(a, b) THEN a ELSE b

\* ------------------------------------------------------------ data
Classes == {"positive", "negative"}

\* per-cell mean losses the model's inference can produce (reduce_to_cells output)
LossValues == {Rat(1, 10), Rat(1, 5), Rat(9, 10)}

\* Records of the training dataset: marker, instance mask and binary mask (one
\* entry per pixel), and the activity table (label -> activity).  The binary
\* mask may be 0 on a cell's pixel (erosion).
RecThreePositive ==
    [marker |-> "CD4", instance_mask |-> <<1, 2, 3, 0>>, binary_mask |-> <<1, 1, 1, 0>>,
     activity_df |-> (1 :> 1 @@ 2 :> 1 @@ 3 :> 1)]
RecMixed ==
    [marker |-> "CD4", instance_mask |-> <<1, 1, 2, 0>>, binary_mask |-> <<1, 0, 1, 0>>,
     activity_df |-> (1 :> 1 @@ 2 :> 0)]
RecNegativeOnly ==
    [marker |-> "CD8", instance_mask |-> <<2, 2, 4, 0>>, binary_mask |-> <<1, 1, 1, 0>>,
     activity_df |-> (2 :> 0 @@ 4 :> 0)]
RecNoRows ==
    [marker |-> "CD8", instance_mask |-> <<1, 1, 0, 0>>, binary_mask |-> <<1, 1, 0, 0>>,
     activity_df |-> <<>>]
RecMissingRow ==
    [marker |-> "CD4", instance_mask |-> <<1, 3, 3, 0>>, binary_mask |-> <<1, 1, 0, 0>>,
     activity_df |-> (1 :> 0)]
RecOnePositive ==
    [marker |-> "CD8", instance_mask |-> <<5, 5, 0, 0>>, binary_mask |-> <<1, 1, 0, 0>>,
     activity_df |-> (5 :> 1)]
\* a table with a row of activity 2: neither positive nor negative
RecUnspecific ==
    [marker |-> "CD4", instance_mask |-> <<1, 2, 2, 0>>, binary_mask |-> <<1, 1, 1, 0>>,
     activity_df |-> (1 :> 1 @@ 2 :> 2)]

Markers == {"CD4", "CD8"}

\* tf.unique(instance_mask_flat): the distinct labels of the mask, background included
uniques(mask) == {mask[p] : p \in DOMAIN mask}

\* df.merge(DataFrame({"labels": uniques, "loss": loss_per_cell}), on="labels"):
\* inner join of the activity table with the per-cell losses
merge(df, lpc) ==
    [l \in DOMAIN df \cap DOMAIN lpc |-> [activity |-> df[l], loss |-> lpc[l]]]

\* The batch elements one record can give: its fields, with the table joined to
\* any per-cell losses the inference produced for the labels of its mask.
ElementsOf(rec) ==
    {[marker |-> rec.marker, instance_mask |-> rec.instance_mask,
      binary_mask |-> rec.binary_mask, df |-> merge(rec.activity_df, lpc)] :
        lpc \in [uniques(rec.instance_mask) -> LossValues]}

\* ------------------------------------------------------------ numeric kernels
RECURSIVE SortedLosses(_)
\* the "loss" column of df in ascending order (np.quantile sorts its input)
SortedLosses(df) ==
    IF DOMAIN df = {} THEN <<>>
    ELSE LET l == CHOOSE x \in DOMAIN df :
                    \A y \in DOMAIN df :
                        RLt(df[x].loss, df[y].loss) \/ (df[x].loss = df[y].loss /\ x <= y)
         IN <<df[l].loss>> \o SortedLosses([y \in DOMAIN df \ {l} |-> df[y]])

\* np.quantile(df.loss, q), default linear interpolation: virtual index (n-1)*q,
\* value a[lo] + (a[hi] - a[lo]) * (index - lo)
np_quantile(df, q) ==
    LET a == SortedLosses(df)
        n == Len(a)
        h == RMul(RInt(n - 1), q)
        lo == RFloor(h)
        hi == IF lo + 1 > n - 1 THEN n - 1 ELSE lo + 1
        g == RSub(h, RInt(lo))
    IN RAdd(a[lo + 1], RMul(RSub(a[hi + 1], a[lo + 1]), g))

\* -ln(k/10) in thousandths, k = 1..9
NegLogTenths(k) ==
    CASE k = 1 -> Rat(2303, 1000) [] k = 2 -> Rat(1609, 1000) [] k = 3 -> Rat(1204, 1000)
      [] k = 4 -> Rat(916, 1000) [] k = 5 -> Rat(693, 1000) [] k = 6 -> Rat(511, 1000)
      [] k = 7 -> Rat(357, 1000) [] k = 8 -> Rat(223, 1000) [] k = 9 -> Rat(105, 1000)

\* self.loss_fn(y, y_pred) for one target y in {0, 1} and one probability y_pred
\* given in tenths: binary cross-entropy
loss_fn(y, y_pred) == IF y = 1 THEN NegLogTenths(y_pred) ELSE NegLogTenths(10 - y_pred)

\* ------------------------------------------------------------ state
VARIABLES
    params,                      \* self.params (fixed after construction)
    train_dataset,               \* self.train_dataset: its records and batches per epoch
    pc,                          \* position in train(): "init", "while", "for", "select", "done", "error"
    step,                        \* self.step
    epoch_pos,                   \* batches the current for-loop has consumed
    quantile,                    \* self.quantile
    class_wise_loss_quantiles,   \* self.class_wise_loss_quantiles: marker -> class -> threshold
    confidence_loss_thresholds,  \* self.confidence_loss_thresholds
    batch,                       \* the current batch, tables joined with the per-cell losses
    i,                           \* elements batchwise_loss_selection has processed
    loss_selection,              \* the list batchwise_loss_selection builds, one mask per element
    loss_mask,                   \* the loss mask last handed to train_step
    loss_quantiles_toml,         \* log_dir/loss_quantiles.toml
    checkpoints,                 \* the checkpoint files written, by name
    train_steps,                 \* history: calls of train_step
    step_start_quantiles,        \* history: class_wise_loss_quantiles when the batch was fetched
    sel_log                      \* history: per processed element, what the selection read and returned

\* the state of train()
train_vars == <<params, train_dataset, pc, step, epoch_pos, quantile,
                class_wise_loss_quantiles, confidence_loss_thresholds, batch, i,
                loss_selection, loss_mask, loss_quantiles_toml, checkpoints, train_steps,
                step_start_quantiles, sel_log>>

\* One batch element on its way from the inference to the joined table
\* (train(), lines 170-192)
VARIABLES
    cells_pc,        \* "off", "input", "reduced", "merged"
    loss_img,        \* the per-pixel loss of the element, flattened
    instance_mask,   \* batch["instance_mask"] of the element, flattened
    cell_uniques,    \* uniques[i]: the labels reduce_to_cells returns
    loss_per_cell,   \* loss_per_cell[i]: the means reduce_to_cells returns
    activity_df      \* batch["activity_df"][i]: rows [labels, activity], then joined

cells_vars == <<cells_pc, loss_img, instance_mask, cell_uniques, loss_per_cell, activity_df>>

\* One pass of the body of the for-loop of train(), seen step by step: the
\* inference and loss selection, then train_step (lines 112-146), then the count
VARIABLES
    step_pc,            \* "off", "batch", "call", "augmented", "clamped", "mixed",
                        \* "masked", "updated", "counted"
    weights,            \* self.model.trainable_variables, as the number of updates applied
    inference_weights,  \* the weights self.model(x, training=False) ran with
    mixup_prob,         \* self.mixup_fn.prob
    x_mplex,            \* train_step's arguments: per element, one value per pixel
    x_binary,
    y,
    aug,                \* the spatial transform aug_fn drew for each element
    x_mplex_aug,
    loss_mask_aug,
    y_aug,
    x_binary_aug,
    x_mplex_aug_mix,
    x_binary_aug_mix,
    y_aug_mix,
    loss_mask_aug_mix,
    background

step_vars == <<step_pc, weights, inference_weights, mixup_prob, x_mplex, x_binary, y, aug,
               x_mplex_aug, loss_mask_aug, y_aug, x_binary_aug, x_mplex_aug_mix,
               x_binary_aug_mix, y_aug_mix, loss_mask_aug_mix, background>>

\* One call of application.cell_preprocess
VARIABLES
    pre_pc,         \* "off", "call", "done"
    image,          \* the argument: [ndim, channel0], channel 0 with one value per pixel
    kwargs,         \* the keyword arguments: normalize, marker, normalization_dict
    preprocessed    \* what the call gave: [raised, printed, image]

norm_vars == <<pre_pc, image, kwargs, preprocessed>>

\* One call of SegmentationTFRecords.tile_example
VARIABLES
    tile_pc,         \* "off", "call", "done"
    example,         \* the argument: spatial fields [row, column] -> value, the table, the strings
    tile_size,       \* self.tile_size: [height, width]
    stride,          \* self.stride: [vertical, horizontal]
    tiled_examples   \* the list returned

tile_vars == <<tile_pc, example, tile_size, stride, tiled_examples>>

\* One example written to a record and read back
VARIABLES
    serial_pc,            \* "off", "call", "serialized", "deserialized", "parsed"
    serialized_example,   \* the record serialize_example returns
    deserialized_dict,    \* what tf.io.parse_single_example returns
    parsed_example        \* what parse_dict returns

serial_vars == <<serial_pc, serialized_example, deserialized_dict, parsed_example>>

\* One SegmentationTFRecords object and the files it reads and writes
VARIABLES
    pipeline_state,       \* "off", "UNVALIDATED", "VALIDATED", "BUILT", "WRITTEN", "FAILED"
    config,               \* the attributes the constructor sets
    files,                \* conversion matrix, normalization dict file, data folders, cell table
    normalization_dict,   \* self.normalization_dict
    raised,               \* the exception that ended the run
    examples,             \* the tiled examples of the run
    tf_record,            \* the record file of the dataset
    runs                  \* the calls of make_tf_record so far

pipe_vars == <<pipeline_state, config, files, normalization_dict, raised, examples,
               tf_record, runs>>

\* One call that augments an image together with its masks: the augmentation of
\* train_step (lines 114-119) or tf_aug of prepare_tf_aug
VARIABLES
    aug_pc,          \* "off", "train_step", "tf_aug", "done"
    aug_call,        \* the function called: "train_step" or "tf_aug"
    aug_args,        \* the arguments by name: each tensor a list of channels, one value per pixel
    aug_transform,   \* the spatial transform the augmentation drew
    aug_result       \* the tensors the call gave, by name

aug_vars == <<aug_pc, aug_call, aug_args, aug_transform, aug_result>>

vars == <<train_vars, cells_vars, step_vars, norm_vars, tile_vars, serial_vars, pipe_vars,
          aug_vars>>

\* what the actions of train() leave alone
beside_train == <<cells_vars, step_vars, norm_vars, tile_vars, serial_vars, pipe_vars,
                 aug_vars>>

\* what the actions on one batch element leave alone
beside_cells == <<train_vars, step_vars, norm_vars, tile_vars, serial_vars, pipe_vars,
                 aug_vars>>

\* what the actions of one pass of the for-loop leave alone
beside_step == <<cells_vars, norm_vars, tile_vars, serial_vars, pipe_vars,
                 aug_vars>>

\* what the actions of cell_preprocess leave alone
beside_norm == <<train_vars, cells_vars, step_vars, tile_vars, serial_vars, pipe_vars,
                 aug_vars>>

\* what the actions of tile_example leave alone
beside_tile == <<train_vars, cells_vars, step_vars, norm_vars, serial_vars, pipe_vars,
                 aug_vars>>

\* what the actions of the round trip through a record leave alone
beside_serial == <<train_vars, cells_vars, step_vars, norm_vars,
                   tile_pc, tile_size, stride, tiled_examples, pipe_vars,
                 aug_vars>>

\* what the actions of make_tf_record leave alone
beside_pipe == <<train_vars, cells_vars, step_vars, norm_vars, tile_vars, serial_vars,
                 aug_vars>>

\* what the actions of one augmentation call leave alone
beside_aug == <<train_vars, cells_vars, step_vars, norm_vars, tile_vars, serial_vars,
                pipe_vars>>

\* ------------------------------------------------------------ quantile schedule
\* variant: PromixNaive.quantile_scheduler without the clamp at quantile_end
quantile_scheduler_unclamped(k) ==
    RAdd(params.quantile,
         RDivInt(RMul(RSub(params.quantile_end, params.quantile), RInt(k)),
                 params.quantile_warmup_steps))

\* PromixNaive.quantile_scheduler
quantile_scheduler(k) ==
    np_min(RAdd(params.quantile,
                RDivInt(RMul(RSub(params.quantile_end, params.quantile), RInt(k)),
                        params.quantile_warmup_steps)),
           params.quantile_end)

\* ------------------------------------------------------------ loss selection
\* PromixNaive.matched_high_confidence_selection_thresholds: loss[0] is the loss of
\* (target 0, neg_thresh), loss[1] the loss of (target 1, pos_thresh)
matched_high_confidence_selection_thresholds ==
    LET neg_thresh == params.confidence_thresholds[1]
        pos_thresh == params.confidence_thresholds[2]
        loss == <<loss_fn(0, neg_thresh), loss_fn(1, pos_thresh)>>
    IN [positive |-> loss[1], negative |-> loss[2]]

\* variant: the rows of activity 2 kept with either class
df_where_activity_or_unspecific(df, a) ==
    [l \in {x \in DOMAIN df : df[x].activity \in {a, 2}} |-> df[l]]

\* df[df["activity"] == a]
df_where_activity(df, a) == [l \in {x \in DOMAIN df : df[x].activity = a} |-> df[l]]

\* variant: the configured ema also for a marker without an entry
effective_ema_configured(quantiles, mark) == params.ema

\* ema as class_wise_loss_selection uses it: 1.0 for a marker without an entry
effective_ema(quantiles, mark) == IF mark \notin DOMAIN quantiles THEN One ELSE params.ema

\* variant: the entry is set to its initial value on every call
with_entry_reset(quantiles, mark) ==
    [m \in DOMAIN quantiles \cup {mark} |->
        IF m = mark THEN [positive |-> One, negative |-> One] ELSE quantiles[m]]

\* the dict after "if mark not in keys: dict[mark] = {positive: 1.0, negative: 1.0}"
with_entry(quantiles, mark) ==
    IF mark \notin DOMAIN quantiles
    THEN [m \in DOMAIN quantiles \cup {mark} |->
            IF m = mark THEN [positive |-> One, negative |-> One] ELSE quantiles[m]]
    ELSE quantiles

\* variant: the weights of old and new exchanged
ema_update_swapped(old, new, ema) == RAdd(RMul(old, ema), RMul(new, RSub(One, ema)))

\* old * (1 - ema) + new * ema
ema_update(old, new, ema) == RAdd(RMul(old, RSub(One, ema)), RMul(new, ema))

\* variant: df[df["loss"] < threshold]
low_loss_rows_strict(df, threshold) == {l \in DOMAIN df : RLt(df[l].loss, threshold)}

\* df[df["loss"] <= threshold], as the set of its labels
low_loss_rows(df, threshold) == {l \in DOMAIN df : RLe(df[l].loss, threshold)}

\* df[df.loss < threshold], as the set of its labels
confident_rows(df, threshold) == {l \in DOMAIN df : RLt(df[l].loss, threshold)}

\* PromixNaive.class_wise_loss_selection on the dict `quantiles`: the dict it
\* leaves and the list of selected frames it returns
class_wise_loss_selection(positive_df, negative_df, mark, quantiles) ==
    LET ema == effective_ema(quantiles, mark)
        q0 == with_entry(quantiles, mark)
        q1 == IF DOMAIN positive_df # {}
              THEN [q0 EXCEPT ![mark]["positive"] =
                        ema_update(@, np_quantile(positive_df, quantile), ema)]
              ELSE q0
        s1 == IF DOMAIN positive_df # {}
              THEN <<low_loss_rows(positive_df, q1[mark]["positive"])>>
              ELSE <<>>
        q2 == IF DOMAIN negative_df # {}
              THEN [q1 EXCEPT ![mark]["negative"] =
                        ema_update(@, np_quantile(negative_df, quantile), ema)]
              ELSE q1
        s2 == IF DOMAIN negative_df # {}
              THEN <<low_loss_rows(negative_df, q2[mark]["negative"])>>
              ELSE <<>>
    IN [quantiles |-> q2, selected_subset |-> s1 \o s2]

\* PromixNaive.matched_high_confidence_selection
matched_high_confidence_selection(positive_df, negative_df) ==
    (IF DOMAIN positive_df # {}
     THEN <<confident_rows(positive_df, confidence_loss_thresholds.positive)>>
     ELSE <<>>)
    \o
    (IF DOMAIN negative_df # {}
     THEN <<confident_rows(negative_df, confidence_loss_thresholds.negative)>>
     ELSE <<>>)

\* np.unique(pd.concat(selected_subset).labels.values); no labels for an empty list
np_unique(selected_subset) == UNION {selected_subset[k] : k \in DOMAIN selected_subset}

\* tf.reduce_any(tf.equal(mask, labels), axis=-1), cast to float
positive_mask(mask, labels) ==
    [p \in DOMAIN mask |-> IF mask[p] \in labels THEN 1 ELSE 0]

\* tf.zeros_like(mask)
zeros_like(mask) == [p \in DOMAIN mask |-> 0]

\* variant: an element with an empty table registers its marker
select_element_registering(el, quantiles) ==
    IF DOMAIN el.df = {}
    THEN [quantiles |-> with_entry(quantiles, el.marker), class_wise |-> <<>>,
          high_conf |-> <<>>, mask |-> zeros_like(el.instance_mask)]
    ELSE LET positive_df == df_where_activity(el.df, 1)
             negative_df == df_where_activity(el.df, 0)
             cw == class_wise_loss_selection(positive_df, negative_df, el.marker, quantiles)
             hc == matched_high_confidence_selection(positive_df, negative_df)
             selected_subset == cw.selected_subset \o hc
         IN [quantiles |-> cw.quantiles, class_wise |-> cw.selected_subset, high_conf |-> hc,
             mask |-> positive_mask(el.instance_mask, np_unique(selected_subset))]

\* One iteration of the loop of batchwise_loss_selection for element el, run on
\* the dict `quantiles`
select_element(el, quantiles) ==
    IF DOMAIN el.df = {}
    THEN [quantiles |-> quantiles, class_wise |-> <<>>, high_conf |-> <<>>,
          mask |-> zeros_like(el.instance_mask)]
    ELSE LET positive_df == df_where_activity(el.df, 1)
             negative_df == df_where_activity(el.df, 0)
             cw == class_wise_loss_selection(positive_df, negative_df, el.marker, quantiles)
             hc == matched_high_confidence_selection(positive_df, negative_df)
             selected_subset == cw.selected_subset \o hc
         IN [quantiles |-> cw.quantiles, class_wise |-> cw.selected_subset, high_conf |-> hc,
             mask |-> positive_mask(el.instance_mask, np_unique(selected_subset))]

\* variant: the binary mask is not applied
apply_binary_mask_skipped(selection, elems) == selection

\* loss_mask *= tf.cast(tf.squeeze(batch["binary_mask"], -1), tf.float32)
apply_binary_mask(selection, elems) ==
    [e \in DOMAIN selection |->
        [p \in DOMAIN selection[e] |-> selection[e][p] * elems[e].binary_mask[p]]]

\* ------------------------------------------------------------ snapshots
\* toml.dump(self.class_wise_loss_quantiles, f): one table per marker, one key per class
toml_dump(quantiles) ==
    {<<m, c, quantiles[m][c]>> : m \in DOMAIN quantiles, c \in Classes}

\* variant: the break taken as soon as the step count reaches num_steps
break_after_step_early(s) == s >= params.num_steps

\* "if self.step > num_steps: break"
break_after_step(s) == s > params.num_steps

\* variant: one file name for every step
checkpoint_name_fixed(s) == <<"checkpoint_", 0, ".h5">>

\* "checkpoint_{}.h5".format(self.step)
checkpoint_name(s) == <<"checkpoint_", s, ".h5">>

\* ------------------------------------------------------------ configurations
Half == Rat(1, 2)

\* every batch element the dataset and the model's inference can give
Elements == UNION {ElementsOf(r) : r \in train_dataset.records}

ParamRecord(n, snap, val, bs, e, q0, q1, w, ct) ==
    [num_steps |-> n, snap_steps |-> snap, val_steps |-> val, batch_size |-> bs, ema |-> e,
     quantile |-> q0, quantile_end |-> q1, quantile_warmup_steps |-> w,
     confidence_thresholds |-> ct]

\* values for quantile_start and quantile_end
QuantileValues == {Zero, Half, One}

\* loop control: step budget, dataset length, the snapshot periods and the
\* quantile schedule vary
LoopParams ==
    {ParamRecord(n, snap, val, 1, Half, q0, q1, w, <<1, 9>>) :
        n \in 1..MaxSteps, snap \in 1..MaxPeriod, val \in 1..MaxPeriod,
        q0 \in QuantileValues, q1 \in QuantileValues, w \in 1..MaxWarmup}
LoopDatasets ==
    [records : {{RecOnePositive, RecNoRows}}, num_batches : 1..MaxBatches]

\* loss selection: batch size and ema vary over one training step at quantile 0.5
\* with confidence thresholds (0.2, 0.9), on a dataset of three-cell records and
\* on one of mixed records; one more configuration runs a falling schedule
\* (quantiles 1, 0, then below 0) over MaxSteps steps
SelParams ==
    {ParamRecord(1, 1, 1, bs, e, Half, Half, 1, <<2, 9>>) :
        bs \in 1..MaxBatchSize, e \in {Half, One}}
    \cup {ParamRecord(MaxSteps, 1, 1, 1, Half, One, Zero, 1, <<1, 9>>)}
SelDatasets ==
    [records : {{RecThreePositive},
                {RecMixed, RecNegativeOnly, RecNoRows, RecMissingRow},
                {RecUnspecific}},
     num_batches : {1}]

\* ------------------------------------------------------------ train()
\* no batch element is on its way through reduce_to_cells and the join
CellsOff ==
    /\ cells_pc = "off"
    /\ loss_img = <<>>
    /\ instance_mask = <<>>
    /\ cell_uniques = <<>>
    /\ loss_per_cell = <<>>
    /\ activity_df = <<>>

\* tile_example is not running
NoTiling ==
    /\ tile_pc = "off"
    /\ tile_size = <<>>
    /\ stride = <<>>
    /\ tiled_examples = <<>>

\* no example is written to a record
SerialOff ==
    /\ serial_pc = "off"
    /\ serialized_example = <<>>
    /\ deserialized_dict = <<>>
    /\ parsed_example = <<>>

\* no exception
NoError == [type |-> "None", message |-> "", key |-> ""]

\* no SegmentationTFRecords object exists
PipeOff ==
    /\ pipeline_state = "off"
    /\ config = <<>>
    /\ files = <<>>
    /\ normalization_dict = <<>>
    /\ raised = NoError
    /\ examples = <<>>
    /\ tf_record = [exists |-> FALSE, records |-> <<>>]
    /\ runs = 0

\* no augmentation call is running
AugOff ==
    /\ aug_pc = "off"
    /\ aug_call = ""
    /\ aug_args = <<>>
    /\ aug_transform = <<>>
    /\ aug_result = <<>>

\* no data is being prepared or augmented
TileOff ==
    /\ NoTiling
    /\ example = <<>>
    /\ SerialOff
    /\ PipeOff
    /\ AugOff

\* cell_preprocess is not running
NormOff ==
    /\ pre_pc = "off"
    /\ image = <<>>
    /\ kwargs = <<>>
    /\ preprocessed = <<>>

\* train_step is not running
StepOff ==
    /\ step_pc = "off"
    /\ weights = 0
    /\ inference_weights = 0
    /\ mixup_prob = Zero
    /\ x_mplex = <<>>
    /\ x_binary = <<>>
    /\ y = <<>>
    /\ aug = <<>>
    /\ x_mplex_aug = <<>>
    /\ loss_mask_aug = <<>>
    /\ y_aug = <<>>
    /\ x_binary_aug = <<>>
    /\ x_mplex_aug_mix = <<>>
    /\ x_binary_aug_mix = <<>>
    /\ y_aug_mix = <<>>
    /\ loss_mask_aug_mix = <<>>
    /\ background = <<>>

\* PromixNaive.__init__
InitWith(P, D) ==
    /\ params \in P
    /\ train_dataset \in D
    /\ pc = "init"
    /\ step = 0
    /\ epoch_pos = 0
    /\ quantile = params.quantile
    /\ class_wise_loss_quantiles = <<>>
    /\ confidence_loss_thresholds = [positive |-> Zero, negative |-> Zero]
    /\ batch = <<>>
    /\ i = 0
    /\ loss_selection = <<>>
    /\ loss_mask = <<>>
    /\ loss_quantiles_toml = [exists |-> FALSE, tables |-> {}]
    /\ checkpoints = {}
    /\ train_steps = 0
    /\ step_start_quantiles = <<>>
    /\ sel_log = <<>>

Init == InitWith(LoopParams, LoopDatasets) /\ CellsOff /\ StepOff /\ NormOff /\ TileOff

\* train(), up to the loop: prep_data, prep_model, the confidence thresholds, step = 0
Prepare ==
    /\ pc = "init"
    /\ confidence_loss_thresholds' = matched_high_confidence_selection_thresholds
    /\ step' = 0
    /\ pc' = "while"
    /\ UNCHANGED <<params, train_dataset, epoch_pos, quantile, class_wise_loss_quantiles,
                   batch, i, loss_selection, loss_mask, loss_quantiles_toml, checkpoints,
                   train_steps, step_start_quantiles, sel_log>>
    /\ UNCHANGED beside_train

\* "while self.step < num_steps": enter the for-loop over a fresh pass of the dataset
WhileEnter ==
    /\ pc = "while"
    /\ step < params.num_steps
    /\ epoch_pos' = 0
    /\ pc' = "for"
    /\ UNCHANGED <<params, train_dataset, step, quantile, class_wise_loss_quantiles,
                   confidence_loss_thresholds, batch, i, loss_selection, loss_mask,
                   loss_quantiles_toml, checkpoints, train_steps, step_start_quantiles,
                   sel_log>>
    /\ UNCHANGED beside_train

\* "while self.step < num_steps" is false: train() returns
WhileExit ==
    /\ pc = "while"
    /\ ~(step < params.num_steps)
    /\ pc' = "done"
    /\ UNCHANGED <<params, train_dataset, step, epoch_pos, quantile,
                   class_wise_loss_quantiles, confidence_loss_thresholds, batch, i,
                   loss_selection, loss_mask, loss_quantiles_toml, checkpoints, train_steps,
                   step_start_quantiles, sel_log>>
    /\ UNCHANGED beside_train

\* "for batch in self.train_dataset": the next batch, the inference on it and the
\* join of the per-cell losses into the tables; batchwise_loss_selection starts
FetchBatch ==
    /\ pc = "for"
    /\ epoch_pos < train_dataset.num_batches
    /\ \E b \in [1..params.batch_size -> Elements] : batch' = b
    /\ i' = 0
    /\ loss_selection' = <<>>
    /\ sel_log' = <<>>
    /\ step_start_quantiles' = class_wise_loss_quantiles
    /\ pc' = "select"
    /\ UNCHANGED <<params, train_dataset, step, epoch_pos, quantile,
                   class_wise_loss_quantiles, confidence_loss_thresholds, loss_mask,
                   loss_quantiles_toml, checkpoints, train_steps>>
    /\ UNCHANGED beside_train

\* the for-loop has used up the dataset: back to the while condition
EpochEnd ==
    /\ pc = "for"
    /\ ~(epoch_pos < train_dataset.num_batches)
    /\ pc' = "while"
    /\ UNCHANGED <<params, train_dataset, step, epoch_pos, quantile,
                   class_wise_loss_quantiles, confidence_loss_thresholds, batch, i,
                   loss_selection, loss_mask, loss_quantiles_toml, checkpoints, train_steps,
                   step_start_quantiles, sel_log>>
    /\ UNCHANGED beside_train

\* np.quantile raises ValueError for a quantile outside [0, 1]; it is called when
\* the element's table has a row (every row is positive or negative)
quantile_raises(el) ==
    /\ DOMAIN el.df # {}
    /\ ~(RLe(Zero, quantile) /\ RLe(quantile, One))

\* one iteration of the loop of batchwise_loss_selection
SelectElement ==
    /\ pc = "select"
    /\ i < Len(batch)
    /\ ~quantile_raises(batch[i + 1])
    /\ LET r == select_element(batch[i + 1], class_wise_loss_quantiles) IN
        /\ class_wise_loss_quantiles' = r.quantiles
        /\ loss_selection' = Append(loss_selection, r.mask)
        /\ sel_log' = Append(sel_log, [prior |-> class_wise_loss_quantiles,
                                        post |-> r.quantiles,
                                        class_wise |-> r.class_wise,
                                        high_conf |-> r.high_conf])
    /\ i' = i + 1
    /\ UNCHANGED <<params, train_dataset, pc, step, epoch_pos, quantile,
                   confidence_loss_thresholds, batch, loss_mask, loss_quantiles_toml,
                   checkpoints, train_steps, step_start_quantiles>>
    /\ UNCHANGED beside_train

\* the iteration in which np.quantile raises: the marker's entry may just have been
\* added, and train() ends with the exception
SelectRaises ==
    /\ pc = "select"
    /\ i < Len(batch)
    /\ quantile_raises(batch[i + 1])
    /\ class_wise_loss_quantiles' = with_entry(class_wise_loss_quantiles, batch[i + 1].marker)
    /\ pc' = "error"
    /\ UNCHANGED <<params, train_dataset, step, epoch_pos, quantile,
                   confidence_loss_thresholds, batch, i, loss_selection, loss_mask,
                   loss_quantiles_toml, checkpoints, train_steps, step_start_quantiles,
                   sel_log>>
    /\ UNCHANGED beside_train

\* the rest of the for-loop body: the binary mask applied to the loss mask,
\* train_step, the step counter, the quantile schedule, the break, the snapshot of
\* the loss quantiles and the checkpoint
TrainStep ==
    /\ pc = "select"
    /\ i = Len(batch)
    /\ loss_mask' = apply_binary_mask(loss_selection, batch)
    /\ train_steps' = train_steps + 1
    /\ step' = step + 1
    /\ quantile' = quantile_scheduler(step')
    /\ IF break_after_step(step')
       THEN /\ pc' = "while"
            /\ UNCHANGED <<epoch_pos, loss_quantiles_toml, checkpoints>>
       ELSE /\ loss_quantiles_toml' =
                    IF step' % params.snap_steps = 0
                    THEN [exists |-> TRUE, tables |-> toml_dump(class_wise_loss_quantiles)]
                    ELSE loss_quantiles_toml
            /\ checkpoints' =
                    IF step' % params.val_steps = 0
                    THEN checkpoints \cup {checkpoint_name(step')}
                    ELSE checkpoints
            /\ epoch_pos' = epoch_pos + 1
            /\ pc' = "for"
    /\ UNCHANGED <<params, train_dataset, class_wise_loss_quantiles,
                   confidence_loss_thresholds, batch, i, loss_selection,
                   step_start_quantiles, sel_log>>
    /\ UNCHANGED beside_train

Next ==
    \/ Prepare
    \/ WhileEnter
    \/ WhileExit
    \/ FetchBatch
    \/ EpochEnd
    \/ SelectElement
    \/ SelectRaises
    \/ TrainStep

Spec == Init /\ [][Next]_vars

\* termination: step budgets from 0 on and datasets from zero batches on (as
\* many validation records taken as the file holds)
TermParams ==
    {ParamRecord(n, per, per, 1, Half, q0, q1, w, <<1, 9>>) :
        n \in 0..MaxSteps, per \in 1..MaxPeriod,
        q0 \in QuantileValues, q1 \in QuantileValues, w \in 1..MaxWarmup}
TermDatasets ==
    [records : {{RecOnePositive, RecNoRows}}, num_batches : 0..MaxBatches]

InitTerm == InitWith(TermParams, TermDatasets) /\ CellsOff /\ StepOff /\ NormOff /\ TileOff

\* the step of SelectElement as pc and i show it: the loop of
\* batchwise_loss_selection moves on to its next element
SelectAdvance ==
    /\ pc = "select"
    /\ i < Len(batch)
    /\ ~quantile_raises(batch[i + 1])
    /\ i' = i + 1
    /\ pc' = pc

\* the step of TrainStep as pc and i show it: the rest of the loop body runs and
\* the for-loop continues or is left
TrainAdvance ==
    /\ pc = "select"
    /\ i = Len(batch)
    /\ pc' \in {"for", "while"}
    /\ i' = i

\* the interpreter keeps executing train(): a statement that can run does run
SpecTerm ==
    /\ InitTerm
    /\ [][Next]_vars
    /\ WF_vars(Prepare \/ WhileEnter \/ WhileExit \/ FetchBatch \/ EpochEnd \/ SelectRaises)
    /\ WF_<<pc, i>>(SelectAdvance)
    /\ WF_<<pc, i>>(TrainAdvance)

InitSel == InitWith(SelParams, SelDatasets) /\ CellsOff /\ StepOff /\ NormOff /\ TileOff

SpecSel == InitSel /\ [][Next]_vars

\* ------------------------------------------------------------ reduce_to_cells
\* pixels of the flattened tensors: 1..MaxPixels
MaxPixels == 4

\* labels of the instance masks: background and cell labels that are not
\* contiguous and do not start at 1
MaskLabels == {0, 2, 5}

\* per-pixel losses
PixelLosses == {Rat(1, 10), Rat(9, 10)}

\* the cell table of the sample: label -> activity; label 7 has no pixel
SampleCellTable == (2 :> 1 @@ 5 :> 0 @@ 7 :> 1)

RECURSIVE tf_unique(_)
\* tf.unique(x)[0]: the distinct values of x in the order of their first occurrence
tf_unique(x) ==
    IF x = <<>> THEN <<>>
    ELSE LET front == tf_unique(SubSeq(x, 1, Len(x) - 1))
             last == x[Len(x)]
         IN IF \E k \in DOMAIN front : front[k] = last THEN front ELSE Append(front, last)

RECURSIVE ascending_orders(_, _)
\* every list of the 0-based indices in S that puts their values of x in
\* ascending order: one of the indices of the least value, then the others
ascending_orders(x, S) ==
    IF S = {} THEN {<<>>}
    ELSE UNION {{<<k>> \o rest : rest \in ascending_orders(x, S \ {k})} :
                   k \in {j \in S : \A other \in S : x[j + 1] <= x[other + 1]}}

\* tf.argsort(x), which is not stable: every list of 0-based indices that puts x
\* in ascending order
tf_argsort(x) == ascending_orders(x, 0..(Len(x) - 1))

\* tf.gather(x, indices), indices 0-based
tf_gather(x, indices) == [k \in DOMAIN indices |-> x[indices[k] + 1]]

RECURSIVE reduce_sum(_)
\* the sum of a list of numbers
reduce_sum(x) == IF x = <<>> THEN Zero ELSE RAdd(x[1], reduce_sum(Tail(x)))

\* tf.math.segment_mean(data, segment_ids), segment_ids ascending: one entry per
\* id from 0 to the last id, the mean of the data carrying it, 0 for an id that
\* does not occur
segment_mean(data, segment_ids) ==
    [s \in 1..(segment_ids[Len(segment_ids)] + 1) |->
        LET segment == SelectSeq([k \in DOMAIN data |-> <<segment_ids[k], data[k]>>],
                                 LAMBDA e : e[1] = s - 1)
        IN IF segment = <<>> THEN Zero
           ELSE RDivInt(reduce_sum([k \in DOMAIN segment |-> segment[k][2]]), Len(segment))]

\* variant: the means listed by ascending label, not in the order of uniques
reduce_to_cells_sorted_means(pred, mask, sort_order) ==
    LET sorted_mask == tf_gather(mask, sort_order)
        mean_per_cell == segment_mean(tf_gather(pred, sort_order), sorted_mask)
    IN [uniques |-> tf_unique(mask),
        mean_per_cell |-> tf_gather(mean_per_cell, tf_unique(sorted_mask))]

\* PromixNaive.reduce_to_cells on flattened tensors, with the index list
\* tf.argsort returned
reduce_to_cells(pred, mask, sort_order) ==
    LET instance_mask_flat == mask
        pred_flat == pred
        u == tf_unique(instance_mask_flat)
        sorted_mask == tf_gather(instance_mask_flat, sort_order)
        sorted_pred == tf_gather(pred_flat, sort_order)
        mean_per_cell == segment_mean(sorted_pred, sorted_mask)
    IN [uniques |-> u, mean_per_cell |-> tf_gather(mean_per_cell, u)]

\* variant: row k of the table paired with entry k of the aggregator output
df_merge_by_position(df, u, l) ==
    [k \in 1..(IF Len(df) < Len(u) THEN Len(df) ELSE Len(u)) |->
        [labels |-> df[k].labels, activity |-> df[k].activity, loss |-> l[k]]]

RECURSIVE df_merge(_, _, _)
\* df.merge(pd.DataFrame({"labels": u, "loss": l}), on="labels"): the inner join,
\* one row per pair of a row of df and an entry of u with the same label, in the
\* order of df
df_merge(df, u, l) ==
    IF df = <<>> THEN <<>>
    ELSE LET row == Head(df)
             right == SelectSeq([k \in DOMAIN u |-> [labels |-> u[k], loss |-> l[k]]],
                                LAMBDA r : r.labels = row.labels)
         IN [k \in DOMAIN right |->
                [labels |-> row.labels, activity |-> row.activity, loss |-> right[k].loss]]
            \o df_merge(Tail(df), u, l)

\* the flattened tensors of 1..MaxPixels pixels
Tensors(values) == UNION {[1..n -> values] : n \in 1..MaxPixels}

\* the tables an element can carry: rows of the sample's cell table, each label
\* at most once, in any order
ActivityTables ==
    {t \in UNION {[1..n -> DOMAIN SampleCellTable] : n \in 0..Cardinality(DOMAIN SampleCellTable)} :
        \A a, b \in DOMAIN t : a # b => t[a] # t[b]}

\* the object after construction, train() not called
TrainIdle ==
    InitWith({ParamRecord(1, 1, 1, 1, Half, Half, Half, 1, <<1, 9>>)},
             [records : {{RecOnePositive}}, num_batches : {1}])

\* a batch element after the inference: its per-pixel loss, its instance mask and
\* its table as read from the record
InitCells ==
    /\ TrainIdle
    /\ StepOff
    /\ NormOff
    /\ TileOff
    /\ cells_pc = "input"
    /\ instance_mask \in Tensors(MaskLabels)
    /\ loss_img \in [DOMAIN instance_mask -> PixelLosses]
    /\ activity_df \in {[k \in DOMAIN t |-> [labels |-> t[k], activity |-> SampleCellTable[t[k]]]] :
                            t \in ActivityTables}
    /\ cell_uniques = <<>>
    /\ loss_per_cell = <<>>

\* tf.map_fn(self.reduce_to_cells, (loss_img, batch["instance_mask"])) for the element
ReduceToCells ==
    /\ cells_pc = "input"
    /\ \E sort_order \in tf_argsort(instance_mask) :
          LET r == reduce_to_cells(loss_img, instance_mask, sort_order) IN
          /\ cell_uniques' = r.uniques
          /\ loss_per_cell' = r.mean_per_cell
    /\ cells_pc' = "reduced"
    /\ UNCHANGED <<loss_img, instance_mask, activity_df>>
    /\ UNCHANGED beside_cells

\* batch["activity_df"][i] = df.merge(DataFrame({"labels": uniques[i], "loss": loss_per_cell[i]}))
MergeActivity ==
    /\ cells_pc = "reduced"
    /\ activity_df' = df_merge(activity_df, cell_uniques, loss_per_cell)
    /\ cells_pc' = "merged"
    /\ UNCHANGED <<loss_img, instance_mask, cell_uniques, loss_per_cell>>
    /\ UNCHANGED beside_cells

NextCells ==
    \/ ReduceToCells
    \/ MergeActivity

SpecCells == InitCells /\ [][NextCells]_vars

\* ------------------------------------------------------------ train_step
\* The marker-activity mask the data preparation paints for a record: the
\* activity of the pixel's cell, and 2 (no ground truth) on background, on holes
\* left by the erosion and on a cell without a table row
marker_activity_mask(rec) ==
    [p \in DOMAIN rec.instance_mask |->
        IF rec.binary_mask[p] = 0 \/ rec.instance_mask[p] \notin DOMAIN rec.activity_df
        THEN 2
        ELSE rec.activity_df[rec.instance_mask[p]]]

\* the marker image of a record: intensity p/10 at pixel p
mplex_img(rec) == [p \in DOMAIN rec.instance_mask |-> Rat(p, 10)]

\* The spatial transforms of the augmentation on n pixels, with nearest-neighbour
\* interpolation: for every output pixel the input pixel it shows, 0 for a place
\* outside the input.  Identity, flip and a shift by one pixel.
SpatialTransforms(n) ==
    {[p \in 1..n |-> p], [p \in 1..n |-> n + 1 - p], [p \in 1..n |-> p - 1]}

\* one channel under a spatial transform; places outside the input are filled with `fill`
warp(plane, t, fill) == [p \in DOMAIN plane |-> IF t[p] = 0 THEN fill ELSE plane[t[p]]]

RECURSIVE tf_concat_reversed(_)
\* variant: the tensors concatenated in reverse order
tf_concat_reversed(tensors) ==
    IF tensors = <<>> THEN <<>> ELSE tf_concat_reversed(Tail(tensors)) \o Head(tensors)

RECURSIVE tf_concat(_)
\* tf.concat(tensors, axis=-1) for one element, each tensor a list of channels: the
\* channels of the first tensor, then those of the second, and so on
tf_concat(tensors) ==
    IF tensors = <<>> THEN <<>> ELSE Head(tensors) \o tf_concat(Tail(tensors))

RECURSIVE tf_split(_, _)
\* tf.split(cat, sizes, axis=-1): consecutive groups of channels of the given sizes
tf_split(cat, sizes) ==
    IF sizes = <<>> THEN <<>>
    ELSE <<SubSeq(cat, 1, Head(sizes))>>
            \o tf_split(SubSeq(cat, Head(sizes) + 1, Len(cat)), Tail(sizes))

\* aug_fn(x_mplex, cat) for one element: the same spatial transform on the image
\* and on every channel of cat
aug_fn(img, cat, t) ==
    [image |-> warp(img, t, Zero), masks |-> [c \in DOMAIN cat |-> warp(cat[c], t, 0)]]

\* train_step, lines 114-119, for one element: the three integer tensors
\* concatenated, augmented with the image and split by their channel counts
augment_together(x_mplex_e, loss_mask_e, y_e, x_binary_e, t) ==
    LET out == aug_fn(x_mplex_e, tf_concat(<<loss_mask_e, y_e, x_binary_e>>), t)
        parts == tf_split(out.masks, <<Len(loss_mask_e), Len(y_e), Len(x_binary_e)>>)
    IN [x_mplex_aug |-> out.image, loss_mask_aug |-> parts[1], y_aug |-> parts[2],
        x_binary_aug |-> parts[3]]

\* augmentation_pipeline.augment_images for one element: the pipeline's spatial
\* transform on the image and, as a segmentation map, on every channel of masks
augment_images(images, masks, t) ==
    [images |-> warp(images, t, Zero), masks |-> [c \in DOMAIN masks |-> warp(masks[c], t, 0)]]

RECURSIVE np_concatenate(_)
\* np.concatenate(arrays, -1), each array a list of channels
np_concatenate(arrays) ==
    IF arrays = <<>> THEN <<>> ELSE Head(arrays) \o np_concatenate(Tail(arrays))

\* tf_aug of prepare_tf_aug for one element: aug_masks[..., :1] is the binary
\* mask, aug_masks[..., 1:] the marker activity mask
tf_aug(mplex, binary, activity, t) ==
    LET r == augment_images(mplex, np_concatenate(<<binary, activity>>), t)
    IN [mplex_img |-> r.images,
        binary_mask |-> SubSeq(r.masks, 1, 1),
        marker_activity_mask |-> SubSeq(r.masks, 2, Len(r.masks))]

\* variant: the mask entry kept where y_aug is 2
where_unspecific_kept(y_plane, mask_plane) == mask_plane

\* tf.where(y_aug == 2, 0, loss_mask_aug) for one element
where_unspecific(y_plane, mask_plane) ==
    [p \in DOMAIN mask_plane |-> IF y_plane[p] = 2 THEN 0 ELSE mask_plane[p]]

\* variant: values above the upper limit set to the lower limit
clip_by_value_to_lower(plane, lo, hi) ==
    [p \in DOMAIN plane |-> IF plane[p] < lo \/ plane[p] > hi THEN lo ELSE plane[p]]

\* tf.clip_by_value(y_aug, lo, hi) for one element
clip_by_value(plane, lo, hi) ==
    [p \in DOMAIN plane |->
        IF plane[p] < lo THEN lo ELSE IF plane[p] > hi THEN hi ELSE plane[p]]

\* tf.cast(t, tf.float32) of a batch of integer tensors
cast_float(t) == [e \in DOMAIN t |-> [p \in DOMAIN t[e] |-> RInt(t[e][p])]]

\* blend coefficients mixup can sample
MixupCoefficients == {Rat(1, 2), Rat(3, 4)}

\* variant: the two elements added without weights
mixup_blend_unweighted(t, lam) ==
    [e \in DOMAIN t |-> [p \in DOMAIN t[e] |-> RAdd(t[e][p], t[Len(t) + 1 - e][p])]]

\* mixup_fn on one batch of tensors, when it blends: every element with the
\* element at the mirrored batch position, lam * a + (1 - lam) * b
mixup_blend(t, lam) ==
    [e \in DOMAIN t |->
        [p \in DOMAIN t[e] |->
            RAdd(RMul(lam, t[e][p]), RMul(RSub(One, lam), t[Len(t) + 1 - e][p]))]]

\* variant: the background taken from the binary mask train_step was called with
background_of_input(binary) ==
    [e \in DOMAIN binary |-> [p \in DOMAIN binary[e] |-> IF x_binary[e][p] = 0 THEN One ELSE Zero]]

\* tf.cast(tf.where(x_binary_aug_mix == 0, 1, 0), tf.float32)
background_of(binary) ==
    [e \in DOMAIN binary |-> [p \in DOMAIN binary[e] |-> IF binary[e][p] = Zero THEN One ELSE Zero]]

\* variant: the background left out of the loss mask
add_masks_without_background(a, b) == a

\* loss_mask_aug_mix += background
add_masks(a, b) == [e \in DOMAIN a |-> [p \in DOMAIN a[e] |-> RAdd(a[e][p], b[e][p])]]

RECURSIVE batchwise_loss_selection(_, _, _)
\* PromixNaive.batchwise_loss_selection on the first n elements: the dict it
\* leaves and the stacked masks
batchwise_loss_selection(elems, quantiles, n) ==
    IF n = 0 THEN [quantiles |-> quantiles, loss_selection |-> <<>>]
    ELSE LET before == batchwise_loss_selection(elems, quantiles, n - 1)
             r == select_element(elems[n], before.quantiles)
         IN [quantiles |-> r.quantiles,
             loss_selection |-> Append(before.loss_selection, r.mask)]

\* per-cell losses of the elements of the pass
StepLosses == {Rat(1, 5), Rat(9, 10)}

\* configurations of the pass: batches of one and two elements at quantile 0.5
StepParams ==
    {ParamRecord(MaxSteps, 1, 1, bs, Half, Half, Half, 1, <<2, 9>>) : bs \in {1, 2}}
StepDatasets ==
    [records : {{RecMixed, RecMissingRow, RecNoRows}}, num_batches : {1}]

\* train() inside its for-loop after any number of steps that left the loss
\* quantiles empty (batches of records without rows)
InitStep ==
    /\ params \in StepParams
    /\ train_dataset \in StepDatasets
    /\ pc = "for"
    /\ step \in 0..(MaxSteps - 1)
    /\ epoch_pos = 0
    /\ quantile = quantile_scheduler(step)
    /\ class_wise_loss_quantiles = <<>>
    /\ confidence_loss_thresholds = matched_high_confidence_selection_thresholds
    /\ batch = <<>>
    /\ i = 0
    /\ loss_selection = <<>>
    /\ loss_mask = <<>>
    /\ loss_quantiles_toml = [exists |-> FALSE, tables |-> {}]
    /\ checkpoints = {}
    /\ train_steps = step
    /\ step_start_quantiles = <<>>
    /\ sel_log = <<>>
    /\ CellsOff
    /\ NormOff
    /\ TileOff
    /\ step_pc = "batch"
    /\ weights = step
    /\ inference_weights = 0
    /\ mixup_prob \in {Zero, Half}
    /\ x_mplex = <<>>
    /\ x_binary = <<>>
    /\ y = <<>>
    /\ aug = <<>>
    /\ x_mplex_aug = <<>>
    /\ loss_mask_aug = <<>>
    /\ y_aug = <<>>
    /\ x_binary_aug = <<>>
    /\ x_mplex_aug_mix = <<>>
    /\ x_binary_aug_mix = <<>>
    /\ y_aug_mix = <<>>
    /\ loss_mask_aug_mix = <<>>
    /\ background = <<>>

\* lines 167-197: the batch, the inference on it with the current weights, the
\* per-cell losses joined into the tables, the loss selection and the binary mask
Inference ==
    /\ step_pc = "batch"
    /\ \E recs \in [1..params.batch_size -> train_dataset.records] :
          \E b \in [1..params.batch_size -> Elements] :
             /\ \A e \in DOMAIN b :
                   /\ b[e] \in ElementsOf(recs[e])
                   /\ \A l \in DOMAIN b[e].df : b[e].df[l].loss \in StepLosses
             /\ batch' = b
             /\ x_mplex' = [e \in DOMAIN b |-> mplex_img(recs[e])]
             /\ x_binary' = [e \in DOMAIN b |-> recs[e].binary_mask]
             /\ y' = [e \in DOMAIN b |-> marker_activity_mask(recs[e])]
    /\ inference_weights' = weights
    /\ step_start_quantiles' = class_wise_loss_quantiles
    /\ LET r == batchwise_loss_selection(batch', class_wise_loss_quantiles, Len(batch')) IN
          /\ class_wise_loss_quantiles' = r.quantiles
          /\ loss_selection' = r.loss_selection
          /\ loss_mask' = apply_binary_mask(r.loss_selection, batch')
    /\ i' = Len(batch')
    /\ step_pc' = "call"
    /\ UNCHANGED <<params, train_dataset, pc, step, epoch_pos, quantile,
                   confidence_loss_thresholds, loss_quantiles_toml, checkpoints,
                   train_steps, sel_log>>
    /\ UNCHANGED <<weights, mixup_prob, aug, x_mplex_aug, loss_mask_aug, y_aug, x_binary_aug,
                   x_mplex_aug_mix, x_binary_aug_mix, y_aug_mix, loss_mask_aug_mix,
                   background>>
    /\ UNCHANGED beside_step

\* train_step, lines 114-119: the masks concatenated, augmented with the image
\* and split again
Augment ==
    /\ step_pc = "call"
    /\ \E t \in [DOMAIN batch -> SpatialTransforms(Len(batch[1].instance_mask))] :
          LET out(e) == augment_together(x_mplex[e], <<loss_mask[e]>>, <<y[e]>>,
                                         <<x_binary[e]>>, t[e])
          IN /\ aug' = t
             /\ x_mplex_aug' = [e \in DOMAIN batch |-> out(e).x_mplex_aug]
             /\ loss_mask_aug' = [e \in DOMAIN batch |-> out(e).loss_mask_aug[1]]
             /\ y_aug' = [e \in DOMAIN batch |-> out(e).y_aug[1]]
             /\ x_binary_aug' = [e \in DOMAIN batch |-> out(e).x_binary_aug[1]]
    /\ train_steps' = train_steps + 1
    /\ step_pc' = "augmented"
    /\ UNCHANGED <<params, train_dataset, pc, step, epoch_pos, quantile,
                   class_wise_loss_quantiles, confidence_loss_thresholds, batch, i,
                   loss_selection, loss_mask, loss_quantiles_toml, checkpoints,
                   step_start_quantiles, sel_log>>
    /\ UNCHANGED <<weights, inference_weights, mixup_prob, x_mplex, x_binary, y,
                   x_mplex_aug_mix, x_binary_aug_mix, y_aug_mix, loss_mask_aug_mix,
                   background>>
    /\ UNCHANGED beside_step

\* train_step, lines 122-123: the loss mask zeroed where y_aug is 2, y_aug clipped
ClipTargets ==
    /\ step_pc = "augmented"
    /\ loss_mask_aug' = [e \in DOMAIN y_aug |-> where_unspecific(y_aug[e], loss_mask_aug[e])]
    /\ y_aug' = [e \in DOMAIN y_aug |-> clip_by_value(y_aug[e], 0, 1)]
    /\ step_pc' = "clamped"
    /\ UNCHANGED train_vars
    /\ UNCHANGED <<weights, inference_weights, mixup_prob, x_mplex, x_binary, y, aug,
                   x_mplex_aug, x_binary_aug, x_mplex_aug_mix, x_binary_aug_mix, y_aug_mix,
                   loss_mask_aug_mix, background>>
    /\ UNCHANGED beside_step

\* train_step, lines 125-134: mixup when its probability is positive (it then
\* blends or passes the tensors on), the casts otherwise
Mixup ==
    /\ step_pc = "clamped"
    /\ \/ /\ mixup_prob # Zero
          /\ \E lam \in MixupCoefficients :
                /\ x_mplex_aug_mix' = mixup_blend(x_mplex_aug, lam)
                /\ x_binary_aug_mix' = mixup_blend(cast_float(x_binary_aug), lam)
                /\ y_aug_mix' = mixup_blend(cast_float(y_aug), lam)
                /\ loss_mask_aug_mix' = mixup_blend(cast_float(loss_mask_aug), lam)
       \/ /\ x_mplex_aug_mix' = x_mplex_aug
          /\ x_binary_aug_mix' = cast_float(x_binary_aug)
          /\ y_aug_mix' = cast_float(y_aug)
          /\ loss_mask_aug_mix' = cast_float(loss_mask_aug)
    /\ step_pc' = "mixed"
    /\ UNCHANGED train_vars
    /\ UNCHANGED <<weights, inference_weights, mixup_prob, x_mplex, x_binary, y, aug,
                   x_mplex_aug, loss_mask_aug, y_aug, x_binary_aug, background>>
    /\ UNCHANGED beside_step

\* train_step, lines 135-138: the background added to the loss mask
AddBackground ==
    /\ step_pc = "mixed"
    /\ background' = background_of(x_binary_aug_mix)
    /\ loss_mask_aug_mix' = add_masks(loss_mask_aug_mix, background')
    /\ step_pc' = "masked"
    /\ UNCHANGED train_vars
    /\ UNCHANGED <<weights, inference_weights, mixup_prob, x_mplex, x_binary, y, aug,
                   x_mplex_aug, loss_mask_aug, y_aug, x_binary_aug, x_mplex_aug_mix,
                   x_binary_aug_mix, y_aug_mix>>
    /\ UNCHANGED beside_step

\* train_step, lines 139-146: the masked loss of the augmented batch, its
\* gradients applied to the weights
GradientUpdate ==
    /\ step_pc = "masked"
    /\ weights' = weights + 1
    /\ step_pc' = "updated"
    /\ UNCHANGED train_vars
    /\ UNCHANGED <<inference_weights, mixup_prob, x_mplex, x_binary, y, aug, x_mplex_aug,
                   loss_mask_aug, y_aug, x_binary_aug, x_mplex_aug_mix, x_binary_aug_mix,
                   y_aug_mix, loss_mask_aug_mix, background>>
    /\ UNCHANGED beside_step

\* lines 203-205: train_step has returned; the step counted, the quantile scheduled
CountStep ==
    /\ step_pc = "updated"
    /\ step' = step + 1
    /\ quantile' = quantile_scheduler(step')
    /\ step_pc' = "counted"
    /\ UNCHANGED <<params, train_dataset, pc, epoch_pos, class_wise_loss_quantiles,
                   confidence_loss_thresholds, batch, i, loss_selection, loss_mask,
                   loss_quantiles_toml, checkpoints, train_steps, step_start_quantiles,
                   sel_log>>
    /\ UNCHANGED <<weights, inference_weights, mixup_prob, x_mplex, x_binary, y, aug,
                   x_mplex_aug, loss_mask_aug, y_aug, x_binary_aug, x_mplex_aug_mix,
                   x_binary_aug_mix, y_aug_mix, loss_mask_aug_mix, background>>
    /\ UNCHANGED beside_step

NextStep ==
    \/ Inference
    \/ Augment
    \/ ClipTargets
    \/ Mixup
    \/ AddBackground
    \/ GradientUpdate
    \/ CountStep

SpecStep == InitStep /\ [][NextStep]_vars

\* ------------------------------------------------------------ augmentation calls
\* pixels of the tensors of one augmentation call
AugPixels == 2

\* the channels with one value of `values` per pixel
Planes(values) == [1..AugPixels -> values]

\* tensors of `channels` channels
Tensors_c(values, channels) == [1..channels -> Planes(values)]

\* the marker image of the call: intensity p/10 at pixel p
AugImage == [p \in 1..AugPixels |-> Rat(p, 10)]

\* the arguments of the two calls: for train_step a loss mask, a marker activity
\* mask and a binary mask of one channel each; for tf_aug a binary mask of one
\* channel and a marker activity mask of one or two channels
AugArgs(call) ==
    IF call = "train_step"
    THEN [x_mplex : {AugImage}, loss_mask : Tensors_c({0, 1}, 1),
          y : Tensors_c({0, 1, 2}, 1), x_binary : Tensors_c({0, 1}, 1)]
    ELSE [mplex_img : {AugImage}, binary_mask : Tensors_c({0, 1}, 1),
          marker_activity_mask : Tensors_c({0, 1, 2}, 1) \cup Tensors_c({0, 1, 2}, 2)]

InitAug ==
    /\ TrainIdle
    /\ CellsOff
    /\ StepOff
    /\ NormOff
    /\ NoTiling
    /\ example = <<>>
    /\ SerialOff
    /\ PipeOff
    /\ aug_call \in {"train_step", "tf_aug"}
    /\ aug_pc = aug_call
    /\ aug_args \in AugArgs(aug_call)
    /\ aug_transform = <<>>
    /\ aug_result = <<>>

\* train_step, lines 114-119, on the arguments of the call
TrainStepAugmentation ==
    /\ aug_pc = "train_step"
    /\ \E t \in SpatialTransforms(AugPixels) :
          /\ aug_transform' = t
          /\ aug_result' = augment_together(aug_args.x_mplex, aug_args.loss_mask, aug_args.y,
                                            aug_args.x_binary, t)
    /\ aug_pc' = "done"
    /\ UNCHANGED <<aug_call, aug_args>>
    /\ UNCHANGED beside_aug

\* tf_aug of prepare_tf_aug on the arguments of the call
TfAug ==
    /\ aug_pc = "tf_aug"
    /\ \E t \in SpatialTransforms(AugPixels) :
          /\ aug_transform' = t
          /\ aug_result' = tf_aug(aug_args.mplex_img, aug_args.binary_mask,
                                  aug_args.marker_activity_mask, t)
    /\ aug_pc' = "done"
    /\ UNCHANGED <<aug_call, aug_args>>
    /\ UNCHANGED beside_aug

NextAug ==
    \/ TrainStepAugmentation
    \/ TfAug

SpecAug == InitAug /\ [][NextAug]_vars

\* ------------------------------------------------------------ cell_preprocess
\* pixel intensities of the raw images
PixelValues == {Zero, Rat(1, 2), One, RInt(2)}

\* the floats that are not numbers: 0/0 and x/0 for x > 0
NaN == <<0, 0>>
Inf == <<1, 0>>

\* a / b in float arithmetic, a >= 0 and b > 0 or b = 0
true_divide(a, b) ==
    IF b # Zero THEN Rat(a[1] * b[2], a[2] * b[1])
    ELSE IF a = Zero THEN NaN ELSE Inf

\* x.clip(0, 1) for one value; nan stays nan
clip01(x) ==
    IF x = NaN THEN NaN
    ELSE IF x = Inf THEN One
    ELSE IF RLt(x, Zero) THEN Zero ELSE IF RLt(One, x) THEN One ELSE x

\* np.quantile(channel, q) over the pixels of one channel
channel_quantile(channel, q) == np_quantile([p \in DOMAIN channel |-> [loss |-> channel[p]]], q)

\* the quantile of the fallback branch of cell_preprocess
FallbackQuantile == Rat(999, 1000)

\* NormalizationCalculator for one marker on one image at quantile q: the factor
\* 1 / quantile_value; a marker whose quantile value is 0 is left out
calculate_normalization_matrix(channel, mark, q) ==
    LET quantile_value == channel_quantile(channel, q)
    IN IF quantile_value = Zero THEN <<>>
       ELSE (mark :> Rat(quantile_value[2], quantile_value[1]))

\* application.cell_preprocess(image, **kwargs)
cell_preprocess(img, kw) ==
    IF img.ndim # 4
    THEN [raised |-> "ValueError", printed |-> FALSE, image |-> <<>>]
    ELSE IF ~kw.normalize
    THEN [raised |-> "", printed |-> FALSE, image |-> img.channel0]
    ELSE IF ~kw.normalization_dict.given
    THEN [raised |-> "AttributeError", printed |-> FALSE, image |-> <<>>]
    ELSE LET stored == kw.marker \in DOMAIN kw.normalization_dict.factors
             norm_factor == IF stored THEN kw.normalization_dict.factors[kw.marker]
                            ELSE channel_quantile(img.channel0, FallbackQuantile)
         IN [raised |-> "", printed |-> ~stored,
             image |-> [p \in DOMAIN img.channel0 |->
                           clip01(true_divide(img.channel0[p], norm_factor))]]

\* the values of the keyword normalization_dict: None (the default) or a dict
None == [given |-> FALSE, factors |-> <<>>]
Dict(factors) == [given |-> TRUE, factors |-> factors]

\* the calls of the model: images of 1..MaxPixels pixels with 3 or 4 dimensions,
\* with or without a marker, and for normalization_dict None, an empty dict, the
\* dict NormalizationCalculator gives for this image and marker CD4 at the
\* quantile of the fallback, and a dict of another marker
InitNorm ==
    /\ TrainIdle
    /\ CellsOff
    /\ StepOff
    /\ TileOff
    /\ pre_pc = "call"
    /\ image \in [ndim : {3, 4}, channel0 : Tensors(PixelValues)]
    /\ kwargs \in [normalize : BOOLEAN, marker : {"CD4", "None"},
                   normalization_dict :
                       {None} \cup
                       {Dict(f) : f \in {<<>>, ("CD8" :> One),
                                         calculate_normalization_matrix(
                                             image.channel0, "CD4", FallbackQuantile)}}]
    /\ preprocessed = <<>>

\* the call raises ValueError: the image is not 4D
PreprocessRaisesShape ==
    /\ pre_pc = "call"
    /\ image.ndim # 4
    /\ preprocessed' = cell_preprocess(image, kwargs)
    /\ pre_pc' = "done"
    /\ UNCHANGED <<image, kwargs>>
    /\ UNCHANGED beside_norm

\* normalize is False: the image is returned as it came
PreprocessUnnormalized ==
    /\ pre_pc = "call"
    /\ image.ndim = 4
    /\ ~kwargs.normalize
    /\ preprocessed' = cell_preprocess(image, kwargs)
    /\ pre_pc' = "done"
    /\ UNCHANGED <<image, kwargs>>
    /\ UNCHANGED beside_norm

\* normalization_dict is None: normalization_dict.keys() raises AttributeError
PreprocessRaisesNoDict ==
    /\ pre_pc = "call"
    /\ image.ndim = 4
    /\ kwargs.normalize
    /\ ~kwargs.normalization_dict.given
    /\ preprocessed' = cell_preprocess(image, kwargs)
    /\ pre_pc' = "done"
    /\ UNCHANGED <<image, kwargs>>
    /\ UNCHANGED beside_norm

\* the marker has a stored factor
PreprocessStored ==
    /\ pre_pc = "call"
    /\ image.ndim = 4
    /\ kwargs.normalize
    /\ kwargs.normalization_dict.given
    /\ kwargs.marker \in DOMAIN kwargs.normalization_dict.factors
    /\ preprocessed' = cell_preprocess(image, kwargs)
    /\ pre_pc' = "done"
    /\ UNCHANGED <<image, kwargs>>
    /\ UNCHANGED beside_norm

\* the marker has no stored factor: the quantile of the image is used
PreprocessFallback ==
    /\ pre_pc = "call"
    /\ image.ndim = 4
    /\ kwargs.normalize
    /\ kwargs.normalization_dict.given
    /\ kwargs.marker \notin DOMAIN kwargs.normalization_dict.factors
    /\ preprocessed' = cell_preprocess(image, kwargs)
    /\ pre_pc' = "done"
    /\ UNCHANGED <<image, kwargs>>
    /\ UNCHANGED beside_norm

NextNorm ==
    \/ PreprocessRaisesShape
    \/ PreprocessUnnormalized
    \/ PreprocessRaisesNoDict
    \/ PreprocessStored
    \/ PreprocessFallback

SpecNorm == InitNorm /\ [][NextNorm]_vars

\* ------------------------------------------------------------ tile_example
\* image height and width: 1..MaxSide; strides: 1..MaxSide
MaxSide == 4

RECURSIVE sorted(_)
\* a set of numbers as an ascending list
sorted(S) ==
    IF S = {} THEN <<>>
    ELSE LET m == CHOOSE x \in S : \A z \in S : x <= z IN <<m>> \o sorted(S \ {m})

\* variant: the grid positions only, nothing anchored to the trailing edge
tile_starts_grid_only(n, t, s) == sorted({k * s : k \in 0..n} \cap 0..(n - t))

\* The 0-based start positions of the tiles along an axis of n pixels with tile
\* size t and stride s: the grid positions 0, s, 2s, ... whose window fits, and
\* the position n - t of the window flush with the trailing edge
tile_starts(n, t, s) == sorted(({k * s : k \in 0..n} \cap 0..(n - t)) \cup {n - t})

\* arr[r0 : r0 + size[1], c0 : c0 + size[2]]
window(arr, r0, c0, size) ==
    [ij \in (1..size[1]) \X (1..size[2]) |-> arr[<<r0 + ij[1], c0 + ij[2]>>]]

\* variant: the whole table in every tile
rows_in_unfiltered(table, mask) == table

\* the rows of the table whose label (the first column) occurs in the
\* instance-mask window
rows_in(table, mask) ==
    [columns |-> table.columns,
     rows |-> SelectSeq(table.rows, LAMBDA row : \E ij \in DOMAIN mask : mask[ij] = row[1])]

\* the fields of an example that are images
SpatialKeys == {"mplex_img", "binary_mask", "instance_mask", "marker_activity_mask"}

\* SegmentationTFRecords.tile_example for an example of shape: the tiles in
\* row-major order, the spatial fields cut to the window, the table cut to the
\* labels of the window, the other fields copied
tile_example(ex, shape, size, strd) ==
    LET rows == tile_starts(shape[1], size[1], strd[1])
        cols == tile_starts(shape[2], size[2], strd[2])
    IN [k \in 1..(Len(rows) * Len(cols)) |->
           LET r0 == rows[((k - 1) \div Len(cols)) + 1]
               c0 == cols[((k - 1) % Len(cols)) + 1]
               inst == window(ex.instance_mask, r0, c0, size)
           IN [key \in DOMAIN ex |->
                  IF key \in SpatialKeys THEN window(ex[key], r0, c0, size)
                  ELSE IF key = "marker_activity" THEN rows_in(ex.marker_activity, inst)
                  ELSE ex[key]]]

\* the cells of the examples: label -> activity
TileCellTable == (1 :> 1 @@ 2 :> 0 @@ 3 :> 0)

\* Instance masks of h x w pixels: cell 1 in the top left corner and cell 2 in
\* the bottom right corner, or row r filled by cell r (up to cell 3)
InstanceMasks(h, w) ==
    {[rc \in (1..h) \X (1..w) |->
        IF rc = <<1, 1>> THEN 1 ELSE IF rc = <<h, w>> THEN 2 ELSE 0],
     [rc \in (1..h) \X (1..w) |-> IF rc[1] <= 3 THEN rc[1] ELSE 0]}

\* An example of h x w pixels around an instance mask: the marker image shows at
\* every pixel the pixel's own position, every cell of the mask has a table row
ExampleOf(inst, h, w) ==
    LET labels == sorted({inst[rc] : rc \in DOMAIN inst} \ {0})
    IN [mplex_img |-> [rc \in (1..h) \X (1..w) |-> rc],
        binary_mask |-> [rc \in DOMAIN inst |-> IF inst[rc] > 0 THEN 1 ELSE 0],
        instance_mask |-> inst,
        marker_activity_mask |->
            [rc \in DOMAIN inst |-> IF inst[rc] > 0 THEN TileCellTable[inst[rc]] ELSE 2],
        marker_activity |->
            [columns |-> <<"labels", "activity", "cell_type">>,
             rows |-> [k \in DOMAIN labels |->
                          <<labels[k], TileCellTable[labels[k]], "T cell">>]],
        dataset |-> "test_dataset",
        platform |-> "mibi",
        marker |-> "CD11c"]

\* the shape of the example
example_shape ==
    LET corner == CHOOSE rc \in DOMAIN example.mplex_img :
                     \A x \in DOMAIN example.mplex_img : x[1] <= rc[1] /\ x[2] <= rc[2]
    IN corner

\* an example of at most MaxSide x MaxSide pixels, a tile size that fits into it
\* and any stride up to MaxSide
InitTile ==
    /\ TrainIdle
    /\ CellsOff
    /\ StepOff
    /\ NormOff
    /\ SerialOff
    /\ PipeOff
    /\ AugOff
    /\ tile_pc = "call"
    /\ \E h \in 1..MaxSide, w \in 1..MaxSide :
          /\ example \in {ExampleOf(inst, h, w) : inst \in InstanceMasks(h, w)}
          /\ tile_size \in (1..h) \X (1..w)
    /\ stride \in (1..MaxSide) \X (1..MaxSide)
    /\ tiled_examples = <<>>

\* data_prep.tile_example(example)
TileExample ==
    /\ tile_pc = "call"
    /\ tiled_examples' = tile_example(example, example_shape, tile_size, stride)
    /\ tile_pc' = "done"
    /\ UNCHANGED <<example, tile_size, stride>>
    /\ UNCHANGED beside_tile

NextTile == TileExample

SpecTile == InitTile /\ [][NextTile]_vars

\* ------------------------------------------------------------ serialize_example, parse_dict
\* the largest value of a 16-bit pixel
Uint16Max == 65535

\* the marker image values of the examples, already normalized and clipped
ImageValues == {Zero, Rat(1, 7), Rat(1, 3), Half, Rat(2, 3), One}

\* variant: the image quantized to 8 bits
quantize_8bit(x, levels, rounding) ==
    IF rounding = "floor" THEN RFloor(RMul(x, RInt(255)))
    ELSE RFloor(RAdd(RMul(x, RInt(255)), Half))

\* A float in [0, 1] as one of levels + 1 integer values; the conversion to the
\* integer either truncates or rounds to nearest
quantize(x, levels, rounding) ==
    IF rounding = "floor" THEN RFloor(RMul(x, RInt(levels)))
    ELSE RFloor(RAdd(RMul(x, RInt(levels)), Half))

\* the float a quantized value is read back as
dequantize(q, levels) == Rat(q, levels)

\* an integer array as a lossless image of the given bit depth
encode_png(arr, bits) ==
    [format |-> "png", bits |-> bits, data |-> [p \in DOMAIN arr |-> arr[p] % (2 ^ bits)]]

\* the integer array of a lossless image
decode_png(png) == png.data

\* a string as a bytes feature
encode_bytes(str) == [bytes |-> str]

\* the string of a bytes feature
decode_bytes(feature) == feature.bytes

\* A table as structured text: for every column, in order, its name and the
\* values by 0-based row index
to_json(df) ==
    [k \in 1..Len(df.columns) |->
        [name |-> df.columns[k],
         values |-> [idx \in 0..(Len(df.rows) - 1) |-> df.rows[idx + 1][k]]]]

\* the table of a structured text
read_json(js) ==
    LET n == IF Len(js) = 0 THEN 0 ELSE Cardinality(DOMAIN js[1].values)
    IN [columns |-> [k \in 1..Len(js) |-> js[k].name],
        rows |-> [idx \in 1..n |-> [k \in 1..Len(js) |-> js[k].values[idx - 1]]]]

\* the fields of a record
feature_description ==
    {"mplex_img", "binary_mask", "instance_mask", "marker_activity_mask",
     "imaging_platform", "dataset", "marker", "folder_name", "marker_activity"}

\* SegmentationTFRecords.serialize_example: the marker image quantized to 16
\* bits, the masks as lossless images, the strings as bytes, the table as text
serialize_example(ex, rounding) ==
    [mplex_img |->
         encode_png([p \in DOMAIN ex.mplex_img |->
                        quantize(ex.mplex_img[p], Uint16Max, rounding)], 16),
     binary_mask |-> encode_png(ex.binary_mask, 8),
     instance_mask |-> encode_png(ex.instance_mask, 16),
     marker_activity_mask |-> encode_png(ex.marker_activity_mask, 8),
     imaging_platform |-> encode_bytes(ex.imaging_platform),
     dataset |-> encode_bytes(ex.dataset),
     marker |-> encode_bytes(ex.marker),
     folder_name |-> encode_bytes(ex.folder_name),
     marker_activity |-> encode_bytes(to_json(ex.marker_activity))]

\* tf.io.parse_single_example: the features of the record the description names
parse_single_example(serialized, description) ==
    [key \in description |-> serialized[key]]

\* parse_dict: every feature decoded
parse_dict(deserialized) ==
    LET img == decode_png(deserialized.mplex_img)
    IN [mplex_img |-> [p \in DOMAIN img |-> dequantize(img[p], Uint16Max)],
        binary_mask |-> decode_png(deserialized.binary_mask),
        instance_mask |-> decode_png(deserialized.instance_mask),
        marker_activity_mask |-> decode_png(deserialized.marker_activity_mask),
        imaging_platform |-> decode_bytes(deserialized.imaging_platform),
        dataset |-> decode_bytes(deserialized.dataset),
        marker |-> decode_bytes(deserialized.marker),
        folder_name |-> decode_bytes(deserialized.folder_name),
        marker_activity |-> read_json(decode_bytes(deserialized.marker_activity))]

\* the cells of the serialized examples: label -> <<activity, cell type>>
SerialCellTable == (1 :> <<1, "T cell">> @@ 2 :> <<0, "B cell">> @@ 300 :> <<1, "T cell">>)

\* instance masks of two pixels
SerialInstanceMasks == {<<0, 0>>, <<1, 2>>, <<300, 0>>, <<2, 2>>}

\* the table of the cells in labels, in ascending order
SerialTable(labels) ==
    LET ls == sorted(labels)
    IN [columns |-> <<"labels", "activity", "cell_type">>,
        rows |-> [k \in DOMAIN ls |->
                     <<ls[k], SerialCellTable[ls[k]][1], SerialCellTable[ls[k]][2]>>]]

\* What prepare_example returns for a folder with the instance mask inst and
\* table rows for the cells in labels
SerialExample(img, inst, labels, folder) ==
    [mplex_img |-> img,
     binary_mask |-> [p \in DOMAIN inst |-> IF inst[p] > 0 THEN 1 ELSE 0],
     instance_mask |-> inst,
     marker_activity_mask |->
         [p \in DOMAIN inst |->
             IF inst[p] \in labels THEN SerialCellTable[inst[p]][1] ELSE 2],
     imaging_platform |-> "None",
     dataset |-> "dataset",
     marker |-> "CD4",
     folder_name |-> folder,
     marker_activity |-> SerialTable(labels)]

\* the table has a row for every cell of the mask, or is empty
SerialExamples ==
    UNION {{SerialExample(img, inst, labels, folder) :
               img \in [1..2 -> ImageValues],
               labels \in {{}, {inst[p] : p \in DOMAIN inst} \ {0}},
               folder \in {"fov_0", "fov_1"}} :
           inst \in SerialInstanceMasks}

InitSerial ==
    /\ TrainIdle
    /\ CellsOff
    /\ StepOff
    /\ NormOff
    /\ NoTiling
    /\ PipeOff
    /\ AugOff
    /\ example \in SerialExamples
    /\ serial_pc = "call"
    /\ serialized_example = <<>>
    /\ deserialized_dict = <<>>
    /\ parsed_example = <<>>

\* data_prep.serialize_example(copy.deepcopy(example))
SerializeExample ==
    /\ serial_pc = "call"
    /\ \E rounding \in {"floor", "nearest"} :
          serialized_example' = serialize_example(example, rounding)
    /\ serial_pc' = "serialized"
    /\ UNCHANGED <<example, deserialized_dict, parsed_example>>
    /\ UNCHANGED beside_serial

\* tf.io.parse_single_example(serialized_example, feature_description)
ParseSingleExample ==
    /\ serial_pc = "serialized"
    /\ deserialized_dict' = parse_single_example(serialized_example, feature_description)
    /\ serial_pc' = "deserialized"
    /\ UNCHANGED <<example, serialized_example, parsed_example>>
    /\ UNCHANGED beside_serial

\* parse_dict(deserialized_dict)
ParseDict ==
    /\ serial_pc = "deserialized"
    /\ parsed_example' = parse_dict(deserialized_dict)
    /\ serial_pc' = "parsed"
    /\ UNCHANGED <<example, serialized_example, deserialized_dict>>
    /\ UNCHANGED beside_serial

NextSerial ==
    \/ SerializeExample
    \/ ParseSingleExample
    \/ ParseDict

SpecSerial == InitSerial /\ [][NextSerial]_vars

\* ------------------------------------------------------------ load_and_check_input, make_tf_record
\* data folders: 1..MaxFolders
MaxFolders == 5

\* calls of make_tf_record on the same inputs: 1..MaxRuns
MaxRuns == 2

\* the images of the data folders have ImageSide x ImageSide pixels
ImageSide == 2

\* the names of the data folders
FolderNames == <<"fov_0", "fov_1", "fov_2", "fov_3", "fov_4", "fov_5", "fov_6", "fov_7">>

\* the marker image of a data folder, before normalization
RawImage ==
    [rc \in (1..ImageSide) \X (1..ImageSide) |->
        IF rc = <<1, 1>> THEN One ELSE IF rc = <<2, 1>> THEN Zero ELSE Half]

\* cell_segmentation of a data folder: cell 1 top left, cell 2 bottom right
CellSegmentation ==
    [rc \in (1..ImageSide) \X (1..ImageSide) |->
        IF rc = <<1, 1>> THEN 1 ELSE IF rc = <<ImageSide, ImageSide>> THEN 2 ELSE 0]

\* n data folders; every folder has images of CD4 and XYZ, the first folder
\* the images in first_images
DataFolders(n, first_images) ==
    [k \in 1..n |->
        [name |-> FolderNames[k],
         images |-> IF k = 1 THEN first_images ELSE {"CD4", "XYZ"},
         pixels |-> RawImage,
         cell_segmentation |-> CellSegmentation]]

\* a row of the cell table
CellRow(sample, label, cell_type) ==
    [SampleID |-> sample, labels |-> label, cluster_labels |-> cell_type]

\* Cell tables for n data folders: a row for both cells of every folder; a row
\* for cell 1 of the first folder only; the same with a row of a sample that
\* has no folder
CellTables(n) ==
    {[k \in 1..(2 * n) |->
         CellRow(FolderNames[((k - 1) \div 2) + 1], ((k - 1) % 2) + 1,
                 IF k % 2 = 1 THEN "CD4" ELSE "NK")],
     <<CellRow(FolderNames[1], 1, "CD4")>>,
     <<CellRow("wrong_sample", 1, "CD4"), CellRow(FolderNames[1], 1, "CD4")>>}

\* the conversion matrix with the given columns: cell type -> marker -> activity
ConversionMatrix(columns) ==
    [cell_type \in {"CD4", "NK"} |->
        [m \in columns |->
            IF (cell_type = "CD4" /\ m = "CD4") \/ (cell_type = "NK" /\ m # "CD4")
            THEN 1 ELSE 0]]

\* the elements of a list
ListItems(list) == {list[k] : k \in DOMAIN list}

\* the first element of the list that is not in the set
first_missing(list, S) ==
    list[CHOOSE k \in DOMAIN list :
            list[k] \notin S /\ \A j \in 1..(k - 1) : list[j] \in S]

\* a 2-D array as the list of its pixels, row by row
flatten(arr) ==
    [k \in 1..(ImageSide * ImageSide) |->
        arr[<<((k - 1) \div ImageSide) + 1, ((k - 1) % ImageSide) + 1>>]]

RECURSIVE marker_pixels(_, _)
\* the pixels of the marker's images in the folders that have one
marker_pixels(folders, m) ==
    IF folders = <<>> THEN <<>>
    ELSE (IF m \in Head(folders).images THEN flatten(Head(folders).pixels) ELSE <<>>)
             \o marker_pixels(Tail(folders), m)

\* normalization_quantile is in [0, 1]
quantile_in_range(cfg) ==
    /\ RLe(Zero, cfg.normalization_quantile)
    /\ RLe(cfg.normalization_quantile, One)

\* The normalization dict after resolution: loaded from the file when a path is
\* given, else calculated for the selected markers that have an image
resolve_normalization_dict(cfg, fs) ==
    IF cfg.normalization_dict_path # "None" THEN fs.norm_dict
    ELSE IF ~quantile_in_range(cfg) THEN <<>>
    ELSE LET q == cfg.normalization_quantile
             found == {m \in ListItems(cfg.selected_markers) :
                          /\ marker_pixels(fs.data_folders, m) # <<>>
                          /\ channel_quantile(marker_pixels(fs.data_folders, m), q) # Zero}
         IN [m \in found |->
                calculate_normalization_matrix(marker_pixels(fs.data_folders, m), m, q)[m]]

\* the columns of the conversion matrix
conversion_matrix_columns(fs) == DOMAIN fs.conversion_matrix["CD4"]

\* the columns of the cell table
CellTableColumns == {"SampleID", "labels", "cluster_labels"}

\* the keys of the cell table the object is configured with, in the order checked
table_keys(cfg) ==
    <<[name |-> "cell_type_key", column |-> cfg.cell_type_key],
      [name |-> "segment_label_key", column |-> cfg.segment_label_key],
      [name |-> "sample_key", column |-> cfg.sample_key]>>

\* the sample names of the cell table, in order
sample_names(fs) == [k \in DOMAIN fs.cell_table |-> fs.cell_table[k].SampleID]

\* the names of the data folders
folder_names(fs) == {fs.data_folders[k].name : k \in DOMAIN fs.data_folders}

\* The checks of load_and_check_input that the inputs violate:
\*   a  a selected marker is no column of the conversion matrix
\*   b  a selected marker is not in the normalization dict
\*   c  a selected marker has no image in a data folder
\*   d  normalization_quantile is outside [0, 1]
\*   e  cell_type_key, segment_label_key or sample_key is no column of the cell table
\*   f  a sample name of the cell table is not the name of a data folder
violated_checks(cfg, fs) ==
    LET selected == ListItems(cfg.selected_markers)
    IN {check \in {"a", "b", "c", "d", "e", "f"} :
          \/ check = "a" /\ ~(selected \subseteq conversion_matrix_columns(fs))
          \/ check = "b" /\ ~(selected \subseteq DOMAIN resolve_normalization_dict(cfg, fs))
          \/ check = "c" /\ \E m \in selected : \E k \in DOMAIN fs.data_folders :
                                m \notin fs.data_folders[k].images
          \/ check = "d" /\ ~quantile_in_range(cfg)
          \/ check = "e" /\ \E k \in 1..3 : table_keys(cfg)[k].column \notin CellTableColumns
          \/ check = "f" /\ ~(ListItems(sample_names(fs)) \subseteq folder_names(fs))}

\* variant: the sample names are not checked
check_order_without_samples == <<"a", "c", "d", "b", "e">>

\* The order of the checks: the marker images are looked for before the
\* normalization dict is resolved (with a marker that has no image and no
\* dict entry the error is "Marker ... not found in data folders"), and the
\* quantile is checked before it is used to calculate the dict
check_order == <<"a", "c", "d", "b", "e", "f">>

\* an exception
Error(type, message, key) == [type |-> type, message |-> message, key |-> key]

\* the exception of a violated check, naming what the check found
error_of(check, cfg, fs) ==
    LET selected == cfg.selected_markers
    IN CASE check = "a" ->
               Error("ValueError", "selected markers were found in list conversion",
                     first_missing(selected, conversion_matrix_columns(fs)))
         [] check = "b" ->
               Error("ValueError", "selected markers were found in list normalization",
                     first_missing(selected, DOMAIN resolve_normalization_dict(cfg, fs)))
         [] check = "c" ->
               Error("FileNotFoundError", "Marker not found in data folders",
                     first_missing(selected,
                         {m \in ListItems(selected) : \A k \in DOMAIN fs.data_folders :
                             m \in fs.data_folders[k].images}))
         [] check = "d" ->
               Error("ValueError", "normalization_quantile is not in", "normalization_quantile")
         [] check = "e" ->
               LET k == CHOOSE k \in 1..3 :
                           /\ table_keys(cfg)[k].column \notin CellTableColumns
                           /\ \A j \in 1..(k - 1) : table_keys(cfg)[j].column \in CellTableColumns
               IN Error("ValueError", "key is not in the cell_type_table", table_keys(cfg)[k].name)
         [] check = "f" ->
               Error("ValueError", "list sample names were found in list data folder.",
                     first_missing(sample_names(fs), folder_names(fs)))

\* SegmentationTFRecords.load_and_check_input: the checks in order, the first
\* violated one raises; when none is violated the normalization dict is set
load_and_check_input(cfg, fs) ==
    LET bad == violated_checks(cfg, fs)
        failing == {k \in DOMAIN check_order : check_order[k] \in bad}
    IN IF failing = {}
       THEN [raised |-> NoError, normalization_dict |-> resolve_normalization_dict(cfg, fs)]
       ELSE LET k == CHOOSE k \in failing : \A j \in failing : k <= j
            IN [raised |-> error_of(check_order[k], cfg, fs), normalization_dict |-> <<>>]

\* SegmentationTFRecords.prepare_example: the normalized and clipped marker
\* image, the masks, the table of the sample's cells and the names. A cell of
\* the mask without a row in the cell table gets no row and the value 2 in the
\* marker activity mask; no error is raised for it
prepare_example(folder, m, cfg, fs, norm) ==
    LET inst == folder.cell_segmentation
        sample == SelectSeq(fs.cell_table, LAMBDA row : row[cfg.sample_key] = folder.name)
        activity == [k \in DOMAIN sample |->
                        fs.conversion_matrix[sample[k][cfg.cell_type_key]][m]]
        known == {sample[k][cfg.segment_label_key] : k \in DOMAIN sample}
        activity_of(label) ==
            activity[CHOOSE k \in DOMAIN sample : sample[k][cfg.segment_label_key] = label]
    IN [mplex_img |->
            [rc \in DOMAIN folder.pixels |-> clip01(true_divide(folder.pixels[rc], norm[m]))],
        binary_mask |-> [rc \in DOMAIN inst |-> IF inst[rc] > 0 THEN 1 ELSE 0],
        instance_mask |-> inst,
        imaging_platform |-> cfg.imaging_platform,
        marker_activity_mask |->
            [rc \in DOMAIN inst |-> IF inst[rc] \in known THEN activity_of(inst[rc]) ELSE 2],
        dataset |-> cfg.dataset,
        marker |-> m,
        folder_name |-> folder.name,
        marker_activity |->
            [columns |-> <<"labels", "activity", "cell_type">>,
             rows |-> [k \in DOMAIN sample |->
                          <<sample[k][cfg.segment_label_key], activity[k],
                            sample[k][cfg.cell_type_key]>>]]]

\* the tiles that show a cell
exclude_background_tiles(tiles) ==
    SelectSeq(tiles, LAMBDA tile : \E ij \in DOMAIN tile.binary_mask : tile.binary_mask[ij] # 0)

RECURSIVE build_examples(_, _, _, _)
\* The tiled examples of the pairs (folder, marker) from pair k on, folder by
\* folder and for every folder marker by marker
build_examples(cfg, fs, norm, k) ==
    LET markers == Len(cfg.selected_markers)
    IN IF k > Len(fs.data_folders) * markers THEN <<>>
       ELSE LET folder == fs.data_folders[((k - 1) \div markers) + 1]
                m == cfg.selected_markers[((k - 1) % markers) + 1]
                tiles == tile_example(prepare_example(folder, m, cfg, fs, norm),
                                      <<ImageSide, ImageSide>>, cfg.tile_size, cfg.stride)
            IN (IF cfg.exlude_background_tiles THEN exclude_background_tiles(tiles) ELSE tiles)
                   \o build_examples(cfg, fs, norm, k + 1)

\* variant: the records are added to those of the file
write_records_append(existing, written) == existing \o written

\* the records of the file after the writer, opened on the path of the file,
\* wrote the records and closed: the writer starts an empty file
write_records(existing, written) == written

\* the attributes of the object; at most one of the three table keys is wrong
Configs ==
    {[selected_markers |-> selected,
      normalization_dict_path |-> path,
      normalization_quantile |-> q,
      cell_type_key |-> IF wrong = "cell_type_key" THEN "wrong_key" ELSE "cluster_labels",
      segment_label_key |-> IF wrong = "segment_label_key" THEN "wrong_key" ELSE "labels",
      sample_key |-> IF wrong = "sample_key" THEN "wrong_key" ELSE "SampleID",
      tile_size |-> <<side, side>>,
      stride |-> <<side, side>>,
      exlude_background_tiles |-> exclude,
      dataset |-> "dataset",
      imaging_platform |-> "imaging_platform"] :
        selected \in {<<"CD4">>, <<"XYZ">>, <<"ZYX">>, <<"CD4", "XYZ">>},
        path \in {"None", "norm_dict.json"},
        q \in {Rat(99, 100), Rat(11, 10)},
        wrong \in {"None", "cell_type_key", "segment_label_key", "sample_key"},
        side \in 1..ImageSide,
        exclude \in BOOLEAN}

InitPipe ==
    /\ TrainIdle
    /\ CellsOff
    /\ StepOff
    /\ NormOff
    /\ NoTiling
    /\ example = <<>>
    /\ SerialOff
    /\ AugOff
    /\ pipeline_state = "UNVALIDATED"
    /\ config \in Configs
    /\ \E n \in 1..MaxFolders :
          \E columns \in {{"CD4"}, {"CD4", "XYZ", "ZYX"}}, first_images \in {{"CD4", "XYZ"}, {"CD4"}} :
             \E table \in CellTables(n) :
                files = [conversion_matrix |-> ConversionMatrix(columns),
                         norm_dict |-> ("CD4" :> One),
                         data_folders |-> DataFolders(n, first_images),
                         cell_table |-> table]
    /\ normalization_dict = <<>>
    /\ raised = NoError
    /\ examples = <<>>
    /\ tf_record = [exists |-> FALSE, records |-> <<>>]
    /\ runs = 1

\* load_and_check_input returns
ValidationPasses ==
    /\ pipeline_state = "UNVALIDATED"
    /\ load_and_check_input(config, files).raised = NoError
    /\ normalization_dict' = load_and_check_input(config, files).normalization_dict
    /\ pipeline_state' = "VALIDATED"
    /\ UNCHANGED <<config, files, raised, examples, tf_record, runs>>
    /\ UNCHANGED beside_pipe

\* load_and_check_input raises
ValidationRaises ==
    /\ pipeline_state = "UNVALIDATED"
    /\ load_and_check_input(config, files).raised # NoError
    /\ raised' = load_and_check_input(config, files).raised
    /\ pipeline_state' = "FAILED"
    /\ UNCHANGED <<config, files, normalization_dict, examples, tf_record, runs>>
    /\ UNCHANGED beside_pipe

\* make_tf_record: every pair of a folder and a marker is prepared and tiled
BuildExamples ==
    /\ pipeline_state = "VALIDATED"
    /\ examples' = build_examples(config, files, normalization_dict, 1)
    /\ pipeline_state' = "BUILT"
    /\ UNCHANGED <<config, files, normalization_dict, raised, tf_record, runs>>
    /\ UNCHANGED beside_pipe

\* make_tf_record: every tiled example is serialized and written to the file
WriteRecords ==
    /\ pipeline_state = "BUILT"
    /\ \E rounding \in {"floor", "nearest"} :
          tf_record' =
              [exists |-> TRUE,
               records |-> write_records(tf_record.records,
                               [k \in DOMAIN examples |->
                                   serialize_example(examples[k], rounding)])]
    /\ pipeline_state' = "WRITTEN"
    /\ UNCHANGED <<config, files, normalization_dict, raised, examples, runs>>
    /\ UNCHANGED beside_pipe

\* make_tf_record is called again on the same inputs
RunAgain ==
    /\ pipeline_state = "WRITTEN"
    /\ runs < MaxRuns
    /\ runs' = runs + 1
    /\ pipeline_state' = "UNVALIDATED"
    /\ examples' = <<>>
    /\ normalization_dict' = <<>>
    /\ UNCHANGED <<config, files, raised, tf_record>>
    /\ UNCHANGED beside_pipe

NextPipe ==
    \/ ValidationPasses
    \/ ValidationRaises
    \/ BuildExamples
    \/ WriteRecords
    \/ RunAgain

SpecPipe == InitPipe /\ [][NextPipe]_vars

\* ============================================================ claims
\* ------------------------------------------------------------ C1
\* C1: train honours the step budget: the step counter and the number of
\* train_step calls never exceed num_steps, and when train() returns exactly
\* num_steps training steps have run.
C1_StepBudget ==
    /\ step <= params.num_steps
    /\ train_steps <= params.num_steps
    /\ (pc = "done" => train_steps = params.num_steps)

\* ------------------------------------------------------------ C10
\* the nested map a reader parses back from the snapshot file
TomlLoad(tables) ==
    [m \in {t[1] : t \in tables} |->
        [c \in Classes |-> (CHOOSE t \in tables : t[1] = m /\ t[2] = c)[3]]]

\* a training step whose count is a positive multiple of snap_steps, within the budget
SnapshotStep ==
    /\ train_steps' = train_steps + 1
    /\ step' >= 1
    /\ step' <= params.num_steps
    /\ step' % params.snap_steps = 0

\* C10: LossQuantileState is empty at training start; after every training step
\* whose count is a positive multiple of snap_steps (at most num_steps) the
\* snapshot file holds exactly the in-memory state; an entry, once made, is never
\* removed and a threshold that has left its initial value 1.0 never returns to it
\* (the model's losses are all below 1.0).
C10_LossQuantilePersistence ==
    /\ [](pc = "init" => class_wise_loss_quantiles = <<>>)
    /\ [][/\ SnapshotStep =>
                /\ loss_quantiles_toml'.exists
                /\ TomlLoad(loss_quantiles_toml'.tables) = class_wise_loss_quantiles'
          /\ \A m \in DOMAIN class_wise_loss_quantiles :
                /\ m \in DOMAIN class_wise_loss_quantiles'
                /\ \A c \in Classes :
                      class_wise_loss_quantiles[m][c] # One
                          => class_wise_loss_quantiles'[m][c] # One]_vars

\* a second snapshot has replaced the first and holds the current, non-empty state
C10_Witness ==
    /\ pc = "for"
    /\ step = 2
    /\ params.snap_steps = 1
    /\ class_wise_loss_quantiles # <<>>
    /\ loss_quantiles_toml.exists
    /\ TomlLoad(loss_quantiles_toml.tables) = class_wise_loss_quantiles
    /\ step_start_quantiles # <<>>
    /\ step_start_quantiles # class_wise_loss_quantiles

\* ------------------------------------------------------------ C7
\* q(k) = min(start + (end - start) * k / warmup_steps, end)
ScheduleFormula(k) ==
    LET ramp == RAdd(params.quantile,
                     Rat((params.quantile_end[1] * params.quantile[2]
                            - params.quantile[1] * params.quantile_end[2]) * k,
                         params.quantile_end[2] * params.quantile[2]
                            * params.quantile_warmup_steps))
    IN IF RLe(ramp, params.quantile_end) THEN ramp ELSE params.quantile_end

\* the quantile the loss selection of the step after `step` completed steps uses
\* is q(step); it is quantile_start for step 0 and quantile_end from
\* quantile_warmup_steps on
ScheduleHolds ==
    pc = "select" =>
        /\ quantile = ScheduleFormula(step)
        /\ (step = 0 => quantile = params.quantile)
        /\ (step >= params.quantile_warmup_steps => quantile = params.quantile_end)

\* C7 as stated: the schedule holds for any quantile_start and quantile_end in [0, 1]
C7_ScheduleAnyStartEnd == ScheduleHolds

\* C7 amended: the schedule holds for quantile_start <= quantile_end
C7_Schedule == RLe(params.quantile, params.quantile_end) => ScheduleHolds

\* half-way up the ramp from 0 to 1 over two warmup steps
C7_Witness ==
    /\ pc = "select"
    /\ params.quantile = Zero
    /\ params.quantile_end = One
    /\ params.quantile_warmup_steps = 2
    /\ step = 1
    /\ quantile = Half

\* ------------------------------------------------------------ selection claims
\* the class of a table row
ClassOf(row) ==
    IF row.activity = 1 THEN "positive" ELSE IF row.activity = 0 THEN "negative" ELSE "unspecific"

\* the rows of el's table in class c
ClassRows(el, c) == [l \in {x \in DOMAIN el.df : ClassOf(el.df[x]) = c} |-> el.df[l]]

\* the elements batchwise_loss_selection has processed in the current step
Processed == 1..Len(sel_log)

\* ------------------------------------------------------------ C2
\* C2: a call for a marker without an entry sets every class threshold it updates
\* to the quantile of that class's losses, whatever the configured ema.
C2_ColdStart ==
    pc = "select" =>
        \A e \in Processed :
            LET el == batch[e] IN
            (DOMAIN el.df # {} /\ el.marker \notin DOMAIN sel_log[e].prior) =>
                \A c \in Classes :
                    DOMAIN ClassRows(el, c) # {} =>
                        sel_log[e].post[el.marker][c] = np_quantile(ClassRows(el, c), quantile)

\* a first call for CD4 under ema 0.5 with both classes present
C2_Witness ==
    /\ pc = "select"
    /\ params.ema = Half
    /\ \E e \in Processed :
          /\ batch[e].marker \notin DOMAIN sel_log[e].prior
          /\ \A c \in Classes : DOMAIN ClassRows(batch[e], c) # {}
          /\ sel_log[e].post[batch[e].marker]["positive"] = Rat(1, 5)
          /\ sel_log[e].post[batch[e].marker]["negative"] = Rat(9, 10)

\* ------------------------------------------------------------ C3
\* C3: a call for a marker with an entry sets the threshold of every class with
\* rows to old * (1 - ema) + new_quantile * ema, ema being params["ema"].
C3_EmaUpdate ==
    pc = "select" =>
        \A e \in Processed :
            LET el == batch[e] IN
            el.marker \in DOMAIN sel_log[e].prior =>
                \A c \in Classes :
                    DOMAIN ClassRows(el, c) # {} =>
                        sel_log[e].post[el.marker][c] =
                            RAdd(RMul(sel_log[e].prior[el.marker][c], RSub(One, params.ema)),
                                 RMul(np_quantile(ClassRows(el, c), quantile), params.ema))

\* under ema 0.5 a threshold 0.2 meets a new quantile 0.9 and becomes 0.55
C3_Witness ==
    /\ pc = "select"
    /\ params.ema = Half
    /\ \E e \in Processed :
          LET m == batch[e].marker IN
          /\ m \in DOMAIN sel_log[e].prior
          /\ sel_log[e].prior[m]["positive"] = Rat(1, 5)
          /\ DOMAIN ClassRows(batch[e], "positive") # {}
          /\ np_quantile(ClassRows(batch[e], "positive"), quantile) = Rat(9, 10)
          /\ sel_log[e].post[m]["positive"] = Rat(11, 20)

\* ------------------------------------------------------------ C4
\* the list class_wise_loss_selection returns when, for each class with rows, it
\* selects the rows with loss <= the class threshold of the dict it leaves
ClassWiseExpected(el, post) ==
    LET Rows(c) == {l \in DOMAIN ClassRows(el, c) : RLe(el.df[l].loss, post[el.marker][c])}
    IN (IF DOMAIN ClassRows(el, "positive") # {} THEN <<Rows("positive")>> ELSE <<>>)
       \o (IF DOMAIN ClassRows(el, "negative") # {} THEN <<Rows("negative")>> ELSE <<>>)

\* losses [0.1, 0.2, 0.9] for labels [1, 2, 3], all positive
ExampleTable ==
    (1 :> [activity |-> 1, loss |-> Rat(1, 10)] @@ 2 :> [activity |-> 1, loss |-> Rat(1, 5)]
       @@ 3 :> [activity |-> 1, loss |-> Rat(9, 10)])

\* C4: class_wise_loss_selection returns, per class with rows, exactly the rows
\* with loss <= the threshold as updated by this call; for the example table with
\* quantile 0.5 and ema 1.0 these are labels 1 and 2.
C4_ClassWiseSelection ==
    pc = "select" =>
        \A e \in Processed :
            LET el == batch[e] IN
            DOMAIN el.df # {} =>
                /\ sel_log[e].class_wise = ClassWiseExpected(el, sel_log[e].post)
                /\ (el.df = ExampleTable /\ quantile = Half /\ params.ema = One)
                      => sel_log[e].class_wise = <<{1, 2}>>

\* the example: the table above, quantile 0.5, ema 1.0, on a threshold that was 0.9
C4_Witness ==
    /\ pc = "select"
    /\ quantile = Half
    /\ params.ema = One
    /\ \E e \in Processed :
          /\ batch[e].df = ExampleTable
          /\ batch[e].marker \in DOMAIN sel_log[e].prior
          /\ sel_log[e].prior[batch[e].marker]["positive"] = Rat(9, 10)
          /\ sel_log[e].class_wise = <<{1, 2}>>

\* ------------------------------------------------------------ C5
\* C5: the matched high-confidence selection takes exactly the positive rows with
\* loss strictly below loss(y=1, pos_thresh) and the negative rows with loss
\* strictly below loss(y=0, neg_thresh), thresholds fixed by the configuration.
C5_ConfidenceThresholds ==
    LET claimed == [positive |-> loss_fn(1, params.confidence_thresholds[2]),
                    negative |-> loss_fn(0, params.confidence_thresholds[1])]
        Rows(el, c) == {l \in DOMAIN ClassRows(el, c) : RLt(el.df[l].loss, claimed[c])}
    IN pc = "select" =>
        \A e \in Processed :
            LET el == batch[e] IN
            DOMAIN el.df # {} =>
                sel_log[e].high_conf =
                    (IF DOMAIN ClassRows(el, "positive") # {}
                     THEN <<Rows(el, "positive")>> ELSE <<>>)
                    \o (IF DOMAIN ClassRows(el, "negative") # {}
                        THEN <<Rows(el, "negative")>> ELSE <<>>)

\* ------------------------------------------------------------ C6
\* the labels either heuristic selects for el, by the thresholds the call left
SelectedLabels(el, post) ==
    {l \in DOMAIN el.df :
        LET c == ClassOf(el.df[l]) IN
        /\ c \in Classes
        /\ \/ RLe(el.df[l].loss, post[el.marker][c])
           \/ RLt(el.df[l].loss, confidence_loss_thresholds[c])}

\* train_step has been called on the current batch
MaskHandedOver == train_steps >= 1 /\ pc \in {"for", "while", "done"}

\* C6: the loss mask handed to train_step is 1 exactly at the pixels whose label
\* is selected by either heuristic and whose binary mask is 1; an element with an
\* empty table gets an all-zero mask.
C6_LossMask ==
    MaskHandedOver =>
        /\ DOMAIN loss_mask = DOMAIN batch
        /\ \A e \in DOMAIN batch :
              LET el == batch[e] IN
              /\ DOMAIN loss_mask[e] = DOMAIN el.instance_mask
              /\ \A p \in DOMAIN el.instance_mask :
                    loss_mask[e][p] =
                        IF /\ DOMAIN el.df # {}
                           /\ el.instance_mask[p] \in SelectedLabels(el, sel_log[e].post)
                           /\ el.binary_mask[p] = 1
                        THEN 1 ELSE 0

\* second element of a batch: cell 1 is selected and has an eroded pixel, cell 2
\* is not selected
C6_Witness ==
    /\ MaskHandedOver
    /\ Len(batch) = 2
    /\ batch[2].instance_mask = <<1, 1, 2, 0>>
    /\ batch[2].binary_mask = <<1, 0, 1, 0>>
    /\ loss_selection[2] = <<1, 1, 0, 0>>
    /\ loss_mask[2] = <<1, 0, 0, 0>>

\* ------------------------------------------------------------ C8
\* C8: the cells selected for an element are those the selection gives on the
\* LossQuantileState as it was at the start of the step, whatever else the batch
\* holds and wherever the element stands in it.
C8_ElementIndependence ==
    pc = "select" =>
        \A e \in Processed :
            loss_selection[e] = select_element(batch[e], step_start_quantiles).mask

\* ------------------------------------------------------------ C9
\* the EMA rule applied for one element to a dict of thresholds
FoldElement(state, el) ==
    IF DOMAIN el.df = {} THEN state
    ELSE LET m == el.marker
             known == m \in DOMAIN state
             e == IF known THEN params.ema ELSE One
             Old(c) == IF known THEN state[m][c] ELSE One
             New(c) == IF DOMAIN ClassRows(el, c) = {} THEN Old(c)
                       ELSE RAdd(RMul(Old(c), RSub(One, e)),
                                 RMul(np_quantile(ClassRows(el, c), quantile), e))
         IN [x \in DOMAIN state \cup {m} |->
                IF x = m THEN [c \in Classes |-> New(c)] ELSE state[x]]

RECURSIVE EmaFold(_, _, _)
\* the left fold of FoldElement over the first n elements
EmaFold(state, elems, n) ==
    IF n = 0 THEN state ELSE FoldElement(EmaFold(state, elems, n - 1), elems[n])

\* C9: within a step the threshold updates are applied one at a time in batch
\* order, each reading what the previous one wrote: the dict after n elements is
\* the left fold of the EMA rule over them, from the dict at the start of the step.
C9_SerializedUpdates ==
    pc = "select" =>
        /\ class_wise_loss_quantiles = EmaFold(step_start_quantiles, batch, i)
        /\ \A e \in Processed :
              sel_log[e].prior =
                  IF e = 1 THEN step_start_quantiles ELSE sel_log[e - 1].post

\* two elements of one marker under ema 0.5: the second update builds on the first
C9_Witness ==
    /\ pc = "select"
    /\ params.ema = Half
    /\ i = 2
    /\ batch[1].marker = batch[2].marker
    /\ DOMAIN ClassRows(batch[1], "positive") # {}
    /\ DOMAIN ClassRows(batch[2], "positive") # {}
    /\ sel_log[1].post # sel_log[1].prior
    /\ sel_log[2].post # sel_log[2].prior
    /\ class_wise_loss_quantiles # FoldElement(step_start_quantiles, batch[2])

\* ------------------------------------------------------------ C11
\* the pixels of the element's instance mask that carry label l
PixelsOf(l) == {p \in DOMAIN instance_mask : instance_mask[p] = l}

RECURSIVE LossOver(_)
\* the sum of the element's per-pixel loss over a set of pixels
LossOver(pixels) ==
    IF pixels = {} THEN Zero
    ELSE LET p == CHOOSE x \in pixels : TRUE
         IN RAdd(loss_img[p], LossOver(pixels \ {p}))

\* the arithmetic mean of the loss over the pixels carrying label l
MeanLoss(l) == RDivInt(LossOver(PixelsOf(l)), Cardinality(PixelsOf(l)))

ActivityByLabel(df) ==
    [l \in {df[k].labels : k \in DOMAIN df} |->
        (CHOOSE r \in {df[k] : k \in DOMAIN df} : r.labels = l).activity]

\* C12: the join gives every table row whose label occurs in the mask exactly one
\* row, with the row's own activity and the mean loss of the row's own label, and
\* gives no other row, whatever the order of the aggregator's labels and of the
\* table rows; the joined table is the one the loss selection is given.
C12_LabelMatching ==
    [][(cells_pc = "reduced" /\ cells_pc' = "merged") =>
          /\ \A k \in DOMAIN activity_df :
                PixelsOf(activity_df[k].labels) # {} =>
                    /\ Cardinality({j \in DOMAIN activity_df' :
                                       activity_df'[j].labels = activity_df[k].labels}) = 1
                    /\ \E j \in DOMAIN activity_df' :
                          activity_df'[j] = [labels |-> activity_df[k].labels,
                                             activity |-> activity_df[k].activity,
                                             loss |-> MeanLoss(activity_df[k].labels)]
          /\ \A j \in DOMAIN activity_df' :
                /\ PixelsOf(activity_df'[j].labels) # {}
                /\ \E k \in DOMAIN activity_df : activity_df[k].labels = activity_df'[j].labels
          /\ [l \in {activity_df'[j].labels : j \in DOMAIN activity_df'} |->
                LET r == CHOOSE x \in {activity_df'[j] : j \in DOMAIN activity_df'} :
                            x.labels = l
                IN [activity |-> r.activity, loss |-> r.loss]]
                = merge(ActivityByLabel(activity_df),
                        [l \in uniques(instance_mask) |-> MeanLoss(l)])]_vars

\* the table lists label 5 before label 2, the aggregator lists 2, 0, 5, and the
\* two cells have different mean losses
C12_Witness ==
    /\ cells_pc = "merged"
    /\ cell_uniques = <<2, 0, 5>>
    /\ loss_per_cell = <<Rat(9, 10), Rat(1, 10), Rat(1, 10)>>
    /\ Len(activity_df) = 2
    /\ activity_df[1] = [labels |-> 5, activity |-> 0, loss |-> Rat(1, 10)]
    /\ activity_df[2] = [labels |-> 2, activity |-> 1, loss |-> Rat(9, 10)]

\* ------------------------------------------------------------ C13
\* train_step is running on the current batch and has not yet updated the weights
BeforeUpdate == step_pc \in {"call", "augmented", "clamped", "mixed", "masked"}

\* channel `plane` of element e as the augmentation shows it at pixel p
Augmented(plane, e, p) == IF aug[e][p] = 0 THEN 0 ELSE plane[e][aug[e][p]]

\* what each stage of the pass reads and writes
StageOrder ==
    \* (1) the loss selection, and with it the update of the loss quantiles, runs
    \* only at the start of the pass, on the unaugmented batch
    /\ (class_wise_loss_quantiles' # class_wise_loss_quantiles \/ loss_mask' # loss_mask)
          => /\ step_pc = "batch"
             /\ inference_weights' = weights
             /\ \A e \in DOMAIN batch' : \A p \in DOMAIN loss_mask'[e] :
                   loss_mask'[e][p] = loss_selection'[e][p] * x_binary'[e][p]
    \* (2) the augmentation takes the loss mask of the selection
    /\ (step_pc = "call" /\ step_pc' # "call")
          => /\ step_pc' = "augmented"
             /\ \A e \in DOMAIN batch : \A p \in DOMAIN loss_mask[e] :
                   loss_mask_aug'[e][p] = (IF aug'[e][p] = 0 THEN 0 ELSE loss_mask[e][aug'[e][p]])
    \* (3) mixup takes the augmented tensors
    /\ (step_pc = "clamped" /\ step_pc' # "clamped")
          => /\ step_pc' = "mixed"
             /\ \/ /\ x_binary_aug_mix' = cast_float(x_binary_aug)
                   /\ loss_mask_aug_mix' = cast_float(loss_mask_aug)
                \/ /\ mixup_prob # Zero
                   /\ \E lam \in MixupCoefficients :
                         /\ x_binary_aug_mix' = mixup_blend(cast_float(x_binary_aug), lam)
                         /\ loss_mask_aug_mix' = mixup_blend(cast_float(loss_mask_aug), lam)
    \* (4) the background comes from the binary mask after augmentation and mixup
    /\ (step_pc = "mixed" /\ step_pc' # "mixed")
          => /\ step_pc' = "masked"
             /\ \A e \in DOMAIN batch : \A p \in DOMAIN loss_mask_aug_mix[e] :
                   /\ background'[e][p] = (IF x_binary_aug_mix[e][p] = Zero THEN One ELSE Zero)
                   /\ loss_mask_aug_mix'[e][p] = RAdd(loss_mask_aug_mix[e][p], background'[e][p])
    \* (5) the gradient update is the last stage of train_step, and the step is
    \* counted once, after it
    /\ weights' # weights => (step_pc = "masked" /\ weights' = weights + 1)
    /\ step' # step => (step_pc = "updated" /\ step' = step + 1 /\ step' = weights)

ClampSets(target) ==
    (step_pc = "augmented" /\ step_pc' = "clamped") =>
        \A e \in DOMAIN y_aug : \A p \in DOMAIN y_aug[e] :
            y_aug[e][p] = 2 => y_aug'[e][p] = target

\* C14 as stated: clamping the target to [0, 1] after the augmentation turns
\* every pixel of the no-ground-truth value 2 into a ground-truth negative (0).
C14_ClampToNegative == [][ClampSets(0)]_vars

\* C14 amended: clamping the target to [0, 1] after the augmentation turns every
\* pixel of the no-ground-truth value 2 into a ground-truth positive (1).
C14_ClampToPositive == [][ClampSets(1)]_vars

\* a pixel the augmentation shows with value 2 has target 1 after the clipping
C14_Witness ==
    /\ step_pc = "clamped"
    /\ \E e \in DOMAIN y_aug : \E p \in DOMAIN y_aug[e] :
          /\ Augmented(y, e, p) = 2
          /\ y_aug[e][p] = 1

\* ------------------------------------------------------------ C15
\* the call ran the stored branch with the factor NormalizationCalculator gives
\* for this image at the quantile of the fallback
StoredFactorCall ==
    /\ pre_pc = "done"
    /\ preprocessed.raised = ""
    /\ kwargs.normalize
    /\ kwargs.normalization_dict.given
    /\ kwargs.marker \in DOMAIN kwargs.normalization_dict.factors
    /\ kwargs.normalization_dict.factors =
          calculate_normalization_matrix(image.channel0, kwargs.marker, FallbackQuantile)

\* C15: with the stored factor 1/v, v > 0 the normalization quantile value of the
\* image, cell_preprocess maps a pixel of value x to clip(x / v) (so v to 1.0), the
\* result of the fallback branch computed at the same quantile.
C15_NormalizationConsistent ==
    StoredFactorCall =>
        LET v == channel_quantile(image.channel0, FallbackQuantile) IN
        /\ \A p \in DOMAIN image.channel0 :
              preprocessed.image[p] = clip01(true_divide(image.channel0[p], v))
        /\ preprocessed.image =
              cell_preprocess(image, [kwargs EXCEPT !.normalization_dict = Dict(<<>>)]).image

\* ------------------------------------------------------------ C16
\* the 0-based position in the example of the window a tile shows: its marker
\* image shows at every pixel the pixel's position in the example
Origin(tile) == <<tile.mplex_img[<<1, 1>>][1] - 1, tile.mplex_img[<<1, 1>>][2] - 1>>

\* the tiles are tile_size windows inside the example, in row-major order, that
\* together cover it, the first in the top left and the last in the bottom right
TilesCover ==
    LET h == example_shape[1]
        w == example_shape[2]
        n == Len(tiled_examples)
    IN /\ n >= 1
       /\ \A k \in 1..n :
             LET tile == tiled_examples[k]
                 o == Origin(tile)
             IN /\ DOMAIN tile.mplex_img = (1..tile_size[1]) \X (1..tile_size[2])
                /\ DOMAIN tile.instance_mask = DOMAIN tile.mplex_img
                /\ DOMAIN tile.binary_mask = DOMAIN tile.mplex_img
                /\ DOMAIN tile.marker_activity_mask = DOMAIN tile.mplex_img
                /\ o[1] >= 0 /\ o[1] + tile_size[1] <= h
                /\ o[2] >= 0 /\ o[2] + tile_size[2] <= w
                /\ \A ij \in DOMAIN tile.mplex_img :
                      LET rc == <<o[1] + ij[1], o[2] + ij[2]>> IN
                      /\ tile.mplex_img[ij] = example.mplex_img[rc]
                      /\ tile.instance_mask[ij] = example.instance_mask[rc]
                      /\ tile.binary_mask[ij] = example.binary_mask[rc]
                      /\ tile.marker_activity_mask[ij] = example.marker_activity_mask[rc]
       /\ \A k \in 1..(n - 1) :
             LET a == Origin(tiled_examples[k])
                 b == Origin(tiled_examples[k + 1])
             IN a[1] < b[1] \/ (a[1] = b[1] /\ a[2] < b[2])
       /\ \A rc \in DOMAIN example.mplex_img :
             \E k \in 1..n : \E ij \in DOMAIN tiled_examples[k].mplex_img :
                 tiled_examples[k].mplex_img[ij] = rc
       /\ Origin(tiled_examples[1]) = <<0, 0>>
       /\ Origin(tiled_examples[n]) = <<h - tile_size[1], w - tile_size[2]>>

\* C16 as stated: for an example of H x W pixels, H and W at least the tile
\* size, and any stride, the tiles are tile-size windows inside the image, in
\* row-major order, that cover every pixel, from image[:T, :T] to image[-T:, -T:].
C16_TilingAnyStride == tile_pc = "done" => TilesCover

\* C16 amended: the same for any stride that is at most the tile size.
C16_Tiling ==
    (tile_pc = "done" /\ stride[1] <= tile_size[1] /\ stride[2] <= tile_size[2])
        => TilesCover

\* 4 x 3 pixels, tiles of 2 x 2 with stride 2: the width is not divisible by the
\* stride and the last column of tiles is flush with the right edge
C16_Witness ==
    /\ tile_pc = "done"
    /\ example_shape = <<4, 3>>
    /\ tile_size = <<2, 2>>
    /\ stride = <<2, 2>>
    /\ Len(tiled_examples) = 4
    /\ Origin(tiled_examples[2]) = <<0, 1>>
    /\ Origin(tiled_examples[4]) = <<2, 1>>

\* ------------------------------------------------------------ C17
\* the absolute tolerance of the marker image
Tolerance == Rat(1, 10000)

\* |a - b| <= Tolerance
Close(a, b) ==
    LET d == RSub(a, b)
    IN RLe(<<Abs(d[1]), d[2]>>, Tolerance)

TilesPerExample ==
    Len(tile_starts(ImageSide, config.tile_size[1], config.stride[1]))
        * Len(tile_starts(ImageSide, config.tile_size[2], config.stride[2]))

\* what a record of the file reads back as
Parsed(record) == parse_dict(parse_single_example(record, feature_description))

\* C18: after make_tf_record completed, on its first call or on a later one,
\* the record file holds exactly one record for every tiled example of this
\* run, in order (folders x markers x tiles when no tile is excluded; 5 for 5
\* folders, 1 marker and tiles of the size of the image), never the records of
\* an earlier run as well.
C18_RecordFile ==
    pipeline_state = "WRITTEN" =>
        /\ tf_record.exists
        /\ Len(tf_record.records) = Len(examples)
        /\ \A k \in DOMAIN examples :
              /\ Parsed(tf_record.records[k]).folder_name = examples[k].folder_name
              /\ Parsed(tf_record.records[k]).marker = examples[k].marker
              /\ Parsed(tf_record.records[k]).instance_mask = examples[k].instance_mask
        /\ ~config.exlude_background_tiles =>
              Len(tf_record.records) =
                  Len(files.data_folders) * Len(config.selected_markers) * TilesPerExample
        /\ (/\ Len(files.data_folders) = 5
            /\ Len(config.selected_markers) = 1
            /\ config.tile_size = <<ImageSide, ImageSide>>) => Len(tf_record.records) = 5

\* the second run over 5 folders and 1 marker with tiles of the size of the
\* image completed, and the file holds 5 records
C18_Witness ==
    /\ pipeline_state = "WRITTEN"
    /\ runs = 2
    /\ Len(files.data_folders) = 5
    /\ config.selected_markers = <<"CD4">>
    /\ config.tile_size = <<ImageSide, ImageSide>>
    /\ Len(tf_record.records) = 5

\* ------------------------------------------------------------ C19
\* the messages that identify a check
CheckMessages ==
    [check \in {"a", "b", "c", "d", "e", "f"} |->
        CASE check = "a" -> "selected markers were found in list conversion"
          [] check = "b" -> "selected markers were found in list normalization"
          [] check = "c" -> "Marker not found in data folders"
          [] check = "d" -> "normalization_quantile is not in"
          [] check = "e" -> "key is not in the cell_type_table"
          [] check = "f" -> "list sample names were found in list data folder."]

\* load_and_check_input ran
Validated == pipeline_state \in {"VALIDATED", "BUILT", "WRITTEN", "FAILED"}

\* the first violated check in the order (a), (b), (c), (d), (e), (f)
FirstListed ==
    CHOOSE check \in violated_checks(config, files) :
        \A other \in violated_checks(config, files) :
            \E k, j \in 1..6 : /\ <<"a", "b", "c", "d", "e", "f">>[k] = check
                               /\ <<"a", "b", "c", "d", "e", "f">>[j] = other
                               /\ k <= j

\* the run failed exactly when a check is violated, and then nothing was built
\* and nothing written
GateCloses ==
    /\ Validated =>
          (pipeline_state = "FAILED" <=> violated_checks(config, files) # {})
    /\ pipeline_state = "FAILED" =>
          /\ raised # NoError
          /\ examples = <<>>
          /\ ~tf_record.exists
          /\ tf_record.records = <<>>
    /\ pipeline_state # "FAILED" => raised = NoError

\* C19 as stated: the error of a failed validation identifies the first
\* violated check in the order (a), (b), (c), (d), (e), (f).
C19_FirstListedCheck ==
    pipeline_state = "FAILED" => raised.message = CheckMessages[FirstListed]

\* the moves of the pipeline, and what is built and written in each
PipelineMoves ==
    /\ pipeline_state' # pipeline_state =>
          <<pipeline_state, pipeline_state'>> \in
              {<<"UNVALIDATED", "VALIDATED">>, <<"UNVALIDATED", "FAILED">>,
               <<"VALIDATED", "BUILT">>, <<"BUILT", "WRITTEN">>,
               <<"WRITTEN", "UNVALIDATED">>}
    /\ examples' # examples =>
          <<pipeline_state, pipeline_state'>> \in
              {<<"VALIDATED", "BUILT">>, <<"WRITTEN", "UNVALIDATED">>}
    /\ tf_record' # tf_record => <<pipeline_state, pipeline_state'>> = <<"BUILT", "WRITTEN">>

\* C19 amended: load_and_check_input raises exactly when one of the checks (a)
\* to (f) is violated, with an error that identifies a violated check (a
\* missing marker image, (c), is reported before a missing normalization dict
\* entry, (b)); the pipeline only moves UNVALIDATED -> VALIDATED -> BUILT ->
\* WRITTEN, and no example is built and no record written when a check fails.
C19_ValidationGate ==
    /\ [](/\ GateCloses
          /\ pipeline_state = "FAILED" =>
                /\ \E check \in violated_checks(config, files) :
                      raised.message = CheckMessages[check]
                /\ "c" \in violated_checks(config, files) =>
                      raised.message # CheckMessages["b"])
    /\ [][PipelineMoves]_vars

\* the marker ZYX is a column of the conversion matrix, has no image in the
\* folders and no entry in the calculated normalization dict: the run failed
\* with the error of the missing image
C19_Witness ==
    /\ pipeline_state = "FAILED"
    /\ config.selected_markers = <<"ZYX">>
    /\ config.normalization_dict_path = "None"
    /\ violated_checks(config, files) = {"b", "c"}
    /\ raised = Error("FileNotFoundError", "Marker not found in data folders", "ZYX")
    /\ examples = <<>>

\* ------------------------------------------------------------ C20
\* the cells of a data folder's mask that have no row in the cell table
CellsWithoutRow(folder) ==
    {folder.cell_segmentation[rc] : rc \in DOMAIN folder.cell_segmentation}
        \ ({0} \cup {files.cell_table[k].labels :
                        k \in {j \in DOMAIN files.cell_table :
                                  files.cell_table[j].SampleID = folder.name}})

\* C20: when the mask of a sample has a cell without row in the cell table,
\* the run fails with an error that names the label: it never gets to built
\* examples or to a record file.
C20_MissingMetadataFatal ==
    (/\ pipeline_state # "off"
     /\ \E k \in DOMAIN files.data_folders : CellsWithoutRow(files.data_folders[k]) # {})
        => /\ pipeline_state \notin {"BUILT", "WRITTEN"}
           /\ ~tf_record.exists

\* ------------------------------------------------------------ C21
\* the cells the example's instance mask shows in the window of a tile
CellsInWindow(tile) ==
    {example.instance_mask[<<Origin(tile)[1] + ij[1], Origin(tile)[2] + ij[2]>>] :
        ij \in (1..tile_size[1]) \X (1..tile_size[2])}

\* C21: the table of every tile holds exactly the rows of the example's table
\* whose label occurs in the tile's window of the instance mask, in the order of
\* the example's table, and dataset, platform and marker are those of the
\* example.
C21_TileMetadata ==
    tile_pc = "done" =>
        \A k \in DOMAIN tiled_examples :
            LET tile == tiled_examples[k] IN
            /\ tile.marker_activity.columns = example.marker_activity.columns
            /\ tile.marker_activity.rows =
                   SelectSeq(example.marker_activity.rows,
                             LAMBDA row : row[1] \in CellsInWindow(tile))
            /\ \A j \in DOMAIN tile.marker_activity.rows :
                   \E ij \in DOMAIN tile.instance_mask :
                       tile.instance_mask[ij] = tile.marker_activity.rows[j][1]
            /\ \A ij \in DOMAIN tile.instance_mask :
                   (\E j \in DOMAIN example.marker_activity.rows :
                        example.marker_activity.rows[j][1] = tile.instance_mask[ij])
                   => \E j \in DOMAIN tile.marker_activity.rows :
                        tile.marker_activity.rows[j][1] = tile.instance_mask[ij]
            /\ tile.dataset = example.dataset
            /\ tile.platform = example.platform
            /\ tile.marker = example.marker

\* an example with three cells was cut into tiles; the first tile shows cells 1
\* and 2 and has their two rows, the last tile shows no cell of the first
C21_Witness ==
    /\ tile_pc = "done"
    /\ Len(example.marker_activity.rows) = 3
    /\ Len(tiled_examples) >= 2
    /\ Len(tiled_examples[1].marker_activity.rows) = 2
    /\ tiled_examples[1].marker_activity.rows[1][1] = 1
    /\ tiled_examples[1].marker_activity.rows[2][1] = 2
    /\ \A j \in DOMAIN tiled_examples[Len(tiled_examples)].marker_activity.rows :
          tiled_examples[Len(tiled_examples)].marker_activity.rows[j][1] = 3

\* ------------------------------------------------------------ C22
\* the steps counted so far that are within the budget and a multiple of val_steps
CheckpointSteps(s) ==
    {n \in 1..s : n <= params.num_steps /\ n % params.val_steps = 0}

\* a step is counted: its checkpoint is a new file when the step is within the
\* budget and a multiple of val_steps, and no file is written otherwise
CheckpointWritten ==
    step' # step =>
        IF step' \in CheckpointSteps(step')
        THEN /\ checkpoint_name(step') \notin checkpoints
             /\ checkpoints' = checkpoints \cup {checkpoint_name(step')}
        ELSE checkpoints' = checkpoints

\* C22: the checkpoint files are those named checkpoint_<step>.h5 for the steps
\* counted so far that are positive multiples of val_steps and at most
\* num_steps; every such step writes a file that did not exist, no other step
\* writes one.
C22_Checkpoints ==
    /\ [](/\ checkpoints = {checkpoint_name(n) : n \in CheckpointSteps(step)}
          /\ Cardinality(checkpoints) = Cardinality(CheckpointSteps(step)))
    /\ [][CheckpointWritten]_vars

\* with num_steps 1, val_steps 1 and two batches in the epoch, step 1 wrote its
\* file and a second step was counted that wrote none
C22_Witness ==
    /\ params.num_steps = 1
    /\ params.val_steps = 1
    /\ step = 2
    /\ checkpoints = {checkpoint_name(1)}

\* ------------------------------------------------------------ C23
\* the pass has built its final loss mask
FinalMask == step_pc \in {"masked", "updated", "counted"}

\* C23 as stated: every pixel whose augmented marker activity is 2 (no ground
\* truth) has weight 0 in the final loss mask of train_step, the pixels where the
\* augmented binary mask is 0 included.
C23_UnspecificUnweighted ==
    FinalMask =>
        \A e \in DOMAIN batch : \A p \in DOMAIN loss_mask_aug_mix[e] :
            Augmented(y, e, p) = 2 => loss_mask_aug_mix[e][p] = Zero

\* C23 amended: every pixel whose augmented marker activity is 2 has weight 0 in
\* loss_mask_aug from line 122 on; without mixup its weight in the final loss
\* mask is 0 where the augmented binary mask is non-zero and 1, the background
\* weight re-added at lines 135-137, where the augmented binary mask is 0.
C23_UnspecificCellsUnweighted ==
    /\ step_pc \in {"clamped", "mixed"} \cup {"masked", "updated", "counted"} =>
          \A e \in DOMAIN batch : \A p \in DOMAIN loss_mask_aug[e] :
              Augmented(y, e, p) = 2 => loss_mask_aug[e][p] = 0
    /\ (FinalMask /\ mixup_prob = Zero) =>
          \A e \in DOMAIN batch : \A p \in DOMAIN loss_mask_aug_mix[e] :
              Augmented(y, e, p) = 2 =>
                  loss_mask_aug_mix[e][p] = IF x_binary_aug[e][p] = 0 THEN One ELSE Zero

\* a pass without mixup over a batch with a pixel of a cell without ground truth,
\* weight 0, and a background pixel, weight 1, both of augmented activity 2
C23_Witness ==
    /\ step_pc = "masked"
    /\ mixup_prob = Zero
    /\ \E e \in DOMAIN batch :
          /\ \E p \in DOMAIN y[e] :
                /\ Augmented(y, e, p) = 2
                /\ x_binary_aug[e][p] = 1
                /\ loss_mask_aug_mix[e][p] = Zero
          /\ \E p \in DOMAIN y[e] :
                /\ Augmented(y, e, p) = 2
                /\ x_binary_aug[e][p] = 0
                /\ loss_mask_aug_mix[e][p] = One

\* ------------------------------------------------------------ C24
\* the weight of the selected cells in the final loss mask: what the mask held
\* before the background was added
selected_weight(e, p) == RSub(loss_mask_aug_mix[e][p], background[e][p])

\* C24: at every pixel the final loss mask of train_step, the weight of the
\* selected cells plus the re-added background weight, lies in [0, 1], and the
\* weight of the selected cells and the background weight are never both non-zero.
C24_WeightsInUnitInterval ==
    FinalMask =>
        \A e \in DOMAIN batch : \A p \in DOMAIN loss_mask_aug_mix[e] :
            /\ RLe(Zero, loss_mask_aug_mix[e][p])
            /\ RLe(loss_mask_aug_mix[e][p], One)
            /\ RLe(Zero, selected_weight(e, p))
            /\ ~(selected_weight(e, p) # Zero /\ background[e][p] # Zero)

\* a pass whose mixup blended a selected pixel with an unselected one, weight
\* strictly between 0 and 1, next to a background pixel of weight 1
C24_Witness ==
    /\ step_pc = "masked"
    /\ \E e \in DOMAIN batch :
          /\ \E p \in DOMAIN background[e] :
                /\ RLt(Zero, loss_mask_aug_mix[e][p])
                /\ RLt(loss_mask_aug_mix[e][p], One)
                /\ background[e][p] = Zero
          /\ \E p \in DOMAIN background[e] :
                /\ background[e][p] = One
                /\ loss_mask_aug_mix[e][p] = One

\* ------------------------------------------------------------ C25
\* train() has left its training loop: the while condition was false, or an
\* exception ended the call
LoopLeft == pc \in {"done", "error"}

\* C25: for every num_steps >= 0 and every finite training dataset, one that
\* yields zero training batches included, train() eventually leaves its training
\* loop.
C25_Termination == <>LoopLeft

\* the same for the datasets that yield at least one batch
C25_TerminationNonEmpty == (train_dataset.num_batches > 0) => <>LoopLeft

\* ------------------------------------------------------------ C26
\* element e is the first of the step whose call updates class c of its marker
FirstUpdate(e, c) ==
    /\ DOMAIN ClassRows(batch[e], c) # {}
    /\ \A d \in 1..(e - 1) :
          ~(batch[d].marker = batch[e].marker /\ DOMAIN ClassRows(batch[d], c) # {})

\* C26: for every marker and each class, the first call in which that class's
\* threshold is updated sets it exactly to the quantile computed in that call,
\* also when the marker was first seen in an earlier call where that class's
\* subset was empty; no stored threshold is a blend with the placeholder 1.0.
\* (Stated for the steps that start with an empty LossQuantileState.)
C26_ColdStartPerClass ==
    (pc = "select" /\ step_start_quantiles = <<>>) =>
        \A e \in Processed : \A c \in Classes :
            FirstUpdate(e, c) =>
                sel_log[e].post[batch[e].marker][c] =
                    np_quantile(ClassRows(batch[e], c), quantile)

\* ------------------------------------------------------------ C27
\* the value class c of marker m had before a call: the stored threshold, or the
\* placeholder 1.0 the call registers a new marker with
PreviousValue(prior, m, c) == IF m \in DOMAIN prior THEN prior[m][c] ELSE One

\* C27: processing a batch element with an empty cell table changes nothing in
\* LossQuantileState, its marker is not registered; processing a non-empty element
\* changes only the entry of the element's own marker, and within it only the
\* classes whose subset is non-empty: the thresholds of all other markers and of
\* an empty class keep their previous value.
C27_ThresholdFrame ==
    pc = "select" =>
        \A e \in Processed :
            LET el == batch[e]
                prior == sel_log[e].prior
                post == sel_log[e].post
            IN IF DOMAIN el.df = {}
               THEN post = prior
               ELSE /\ DOMAIN post = DOMAIN prior \cup {el.marker}
                    /\ \A m \in DOMAIN prior \ {el.marker} : post[m] = prior[m]
                    /\ \A c \in Classes :
                          DOMAIN ClassRows(el, c) = {} =>
                              post[el.marker][c] = PreviousValue(prior, el.marker, c)

\* the second element of a batch, of marker CD8 with negative cells only, after a
\* CD4 element: the CD4 entry and the positive threshold of CD8 stay, the negative
\* threshold of CD8 is written
C27_Witness ==
    /\ pc = "select"
    /\ Len(sel_log) = 2
    /\ batch[1].marker = "CD4"
    /\ batch[2].marker = "CD8"
    /\ DOMAIN ClassRows(batch[2], "positive") = {}
    /\ DOMAIN ClassRows(batch[2], "negative") # {}
    /\ sel_log[2].prior = sel_log[1].post
    /\ "CD4" \in DOMAIN sel_log[2].prior
    /\ sel_log[2].post["CD4"] = sel_log[2].prior["CD4"]
    /\ sel_log[2].post["CD8"]["negative"] # One

\* ------------------------------------------------------------ C28
\* the labels batchwise_loss_selection selected for the e-th element of the batch
SelectedSet(e) == np_unique(sel_log[e].class_wise \o sel_log[e].high_conf)

\* C28: every label in a batch element's selected set has a row in the element's
\* cell table with activity 0 or 1 and occurs in the element's instance mask;
\* cells with activity 2, cells without a row and the background label 0 are never
\* selected, and their pixels are 0 in the loss mask batchwise_loss_selection
\* returns.
C28_OnlyLabelledCells ==
    pc = "select" =>
        \A e \in Processed :
            LET el == batch[e] IN
            /\ \A l \in SelectedSet(e) :
                  /\ l \in DOMAIN el.df
                  /\ el.df[l].activity \in {0, 1}
                  /\ l \in uniques(el.instance_mask)
                  /\ l # 0
            /\ \A p \in DOMAIN el.instance_mask :
                  LET l == el.instance_mask[p] IN
                  /\ loss_selection[e][p] = IF l \in SelectedSet(e) THEN 1 ELSE 0
                  /\ (l = 0 \/ l \notin DOMAIN el.df \/ el.df[l].activity = 2)
                        => loss_selection[e][p] = 0

\* an element whose cell of activity 2 has the lowest loss and is left out next to
\* the selected positive cell and the background
C28_Witness ==
    /\ pc = "select"
    /\ Len(sel_log) >= 1
    /\ batch[1].instance_mask = <<1, 2, 2, 0>>
    /\ batch[1].df[2].activity = 2
    /\ RLt(batch[1].df[2].loss, batch[1].df[1].loss)
    /\ SelectedSet(1) = {1}
    /\ loss_selection[1] = <<1, 0, 0, 0>>

\* ------------------------------------------------------------ C29
\* the marker of the call has no stored factor: no dict was supplied, or the dict
\* has no entry for the marker
NoStoredFactor ==
    \/ ~kwargs.normalization_dict.given
    \/ kwargs.marker \notin DOMAIN kwargs.normalization_dict.factors

\* a float in [0, 1]
InUnitInterval(x) == x # NaN /\ x # Inf /\ RLe(Zero, x) /\ RLe(x, One)

\* C29: cell_preprocess with normalize=True and a marker that has no stored
\* factor, the default normalization_dict=None included, falls back to the
\* quantile factor of the image with a diagnostic and returns an image in [0, 1]
\* rather than raising; a non-4D input raises ValueError; normalize=False returns
\* the image unchanged.
C29_NormalizationFallback ==
    pre_pc = "done" =>
        /\ image.ndim # 4 => preprocessed.raised = "ValueError"
        /\ (image.ndim = 4 /\ ~kwargs.normalize) =>
              /\ preprocessed.raised = ""
              /\ preprocessed.image = image.channel0
        /\ (image.ndim = 4 /\ kwargs.normalize /\ NoStoredFactor) =>
              /\ preprocessed.raised = ""
              /\ preprocessed.printed
              /\ \A p \in DOMAIN preprocessed.image : InUnitInterval(preprocessed.image[p])

\* the same with a dict supplied and an image that is not all zero
C29_FallbackWithDict ==
    pre_pc = "done" =>
        /\ image.ndim # 4 => preprocessed.raised = "ValueError"
        /\ (image.ndim = 4 /\ ~kwargs.normalize) =>
              /\ preprocessed.raised = ""
              /\ preprocessed.image = image.channel0
        /\ (image.ndim = 4 /\ kwargs.normalize /\ kwargs.normalization_dict.given
                /\ kwargs.marker \notin DOMAIN kwargs.normalization_dict.factors
                /\ channel_quantile(image.channel0, FallbackQuantile) # Zero) =>
              /\ preprocessed.raised = ""
              /\ preprocessed.printed
              /\ \A p \in DOMAIN preprocessed.image : InUnitInterval(preprocessed.image[p])

\* ------------------------------------------------------------ C30
\* a tensor under the transform of the call, channel by channel
Warped(tensor) == [c \in DOMAIN tensor |-> warp(tensor[c], aug_transform, 0)]

\* the transform that shows every pixel at its own place
IdentityTransform == [p \in 1..AugPixels |-> p]

\* the mask `out` of the result is the augmentation of the argument `arg`: same
\* number of channels, each the transformed channel of the same position, and the
\* argument itself under the identity
AugmentationOf(out, arg) ==
    /\ Len(out) = Len(arg)
    /\ out = Warped(arg)
    /\ aug_transform = IdentityTransform => out = arg

\* C30: when mask channels are concatenated, augmented together and split again
\* (train_step: loss_mask, y, x_binary; prepare_tf_aug: binary_mask,
\* marker_activity_mask), each output is the augmentation of the input of the same
\* name: channel order and channel counts are preserved, with an identity
\* augmentation every mask comes back unchanged, and no mask is swapped with
\* another.
C30_ChannelAlignment ==
    aug_pc = "done" =>
        IF aug_call = "train_step"
        THEN /\ AugmentationOf(aug_result.loss_mask_aug, aug_args.loss_mask)
             /\ AugmentationOf(aug_result.y_aug, aug_args.y)
             /\ AugmentationOf(aug_result.x_binary_aug, aug_args.x_binary)
        ELSE /\ AugmentationOf(aug_result.binary_mask, aug_args.binary_mask)
             /\ AugmentationOf(aug_result.marker_activity_mask, aug_args.marker_activity_mask)

\* a call of train_step's augmentation under the flip with three different
\* masks, each of which comes back flipped under its own name
C30_Witness ==
    /\ aug_pc = "done"
    /\ aug_call = "train_step"
    /\ aug_transform = <<2, 1>>
    /\ aug_args.loss_mask = <<<<1, 0>>>>
    /\ aug_args.y = <<<<1, 2>>>>
    /\ aug_args.x_binary = <<<<1, 1>>>>
    /\ aug_result.loss_mask_aug = <<<<0, 1>>>>
    /\ aug_result.y_aug = <<<<2, 1>>>>
    /\ aug_result.x_binary_aug = <<<<1, 1>>>>

====
